---- MODULE Spec2Model ----
(***************************************************************************)
(* A model of wzprof: the CPU profiler (CPUProfiler, cpuProfiler), the     *)
(* sampling decorator (Sample, sampledFunctionListener, bitstack) and the  *)
(* memory profiler (MemoryProfiler and its allocator listeners).           *)
(*                                                                         *)
(* Each component has its own specification (SpecCPU, SpecSampler,         *)
(* SpecMem); all share the variables below, and a component's actions      *)
(* leave the other components' variables unchanged.                        *)
(***************************************************************************)
EXTENDS Integers, Sequences, FiniteSets, TLC

\* ------------------------------------------------------------------ bounds
\* Deepest nesting of guest calls seen by a listener.
MaxDepth == 2
\* Before callbacks delivered to the CPU profiler in one behaviour.
MaxCalls == 2
\* Largest value the configured time function returns.
MaxTime == 2
\* Largest reading of the wall clock (time.Now).
MaxWall == 1

\* Deepest nesting of calls on one sampled listener.
MaxSampleDepth == 3
\* Before callbacks delivered to the sampled listener in one behaviour.
MaxSampleCalls == 20

\* Deepest nesting of calls to instrumented allocator functions.
MaxMemDepth == 2
\* Calls to instrumented allocator functions in one behaviour.
MaxMemCalls == 2

\* Profilers of each kind created from one Profiling instance.
MaxProfilers == 3

\* Readable frame addresses of the guest memory of a Python walk.
MaxPyFrames == 3

\* Frames of a walk's trace the model keeps.
MaxPyTrace == 4

\* Value at which the model stops advancing python.counter.
MaxPyCounter == 3

\* Highest stack pointer of the Go stacks the unwinder walks.
MaxGoSp == 3

\* Physical frames of a symbolized Go stack, and logical frames of one of them.
MaxGoFrames == 2

MaxInline == 2

\* Segments of a data section, and bytes of one of them.
MaxSegs == 2

MaxSegLen == 2

\* ----------------------------------------------------------------- helpers
Nil == 0

Front(s) == SubSeq(s, 1, Len(s) - 1)

Last(s) == s[Len(s)]

EmptyMap == <<>>

RECURSIVE SumOver(_, _)
\* The sum of f[x] over the finite set S.
SumOver(f, S) ==
    IF S = {} THEN 0
    ELSE LET x == CHOOSE y \in S : TRUE IN f[x] + SumOver(f, S \ {x})

\* ------------------------------------------------------------------- state
VARIABLES
    \* --- process-wide
    seed,          \* stackTraceHashSeed, drawn once per process
    mutex,         \* CPUProfiler.mutex: "free" or "held"
    \* --- CPUProfiler fields
    counts,        \* p.counts: Nil or the identity of a stackCounterMap
    heap,          \* the stackCounterMap objects, by identity
    start,         \* p.start
    frames,        \* p.frames
    traces,        \* p.traces (free-list of trace buffers)
    host,          \* p.host
    \* --- the guest thread running the instrumented module
    calls,         \* outstanding guest calls, outermost first
    gpc,           \* where the guest thread is inside cpuProfiler.After
    af,            \* After's locals once the frame is popped
    ncalls,        \* Before callbacks delivered so far
    \* --- environment clocks
    wallClock,     \* what time.Now() returns now
    \* --- host threads calling StartProfile/StopProfile, and the HTTP handler
    tpc,           \* per thread: "idle", "waiting" (handler timer), "build"
    tsamples,      \* per thread: StopProfile's local samples
    tstart,        \* per thread: StopProfile's local start
    ret,           \* what the last StartProfile/StopProfile call returned
    resp,          \* what the HTTP handler last answered
    \* --- the listener made by Sample(sampleRate, factory)
    kind,          \* "none" (no listener), "inner" (the factory's own), "sampled"
    cycle,         \* sampledFunctionListener.cycle
    count,         \* sampledFunctionListener.count
    stack,         \* sampledFunctionListener.stack (a bitstack)
    inner,         \* what the inner listener has received
    open,          \* outstanding calls on the listener: was each Before forwarded
    nBefore,       \* Before callbacks delivered to the listener so far
    \* --- MemoryProfiler fields and its listeners
    alloc,         \* p.alloc
    inuse,         \* p.inuse: address -> [counter, size]
    lstn,          \* the fields of the listener of each allocator function
    mcalls,        \* outstanding allocator calls, outermost first
    mpc,           \* "run", or "realloc" between reallocProfiler.After's two calls
    mres,          \* results[0] of the realloc whose After is under way
    mlast,         \* the last allocator call whose After has completed
    snap,          \* the last snapshot taken
    nAlloc,        \* observeAlloc calls so far
    sumAlloc,      \* sum of their size arguments
    live,          \* per address: the stacks of the allocations observed there
                   \* whose free has not been observed
    nmem,          \* allocator calls entered so far
    \* --- Profiling fields
    lang,          \* p.lang
    prepareCalled, \* p.prepareCalled
    symbols,       \* p.symbols: which symbolizer
    stackIterator, \* p.stackIterator: which stack iterator adapter
    pret,          \* what the last Prepare/CPUProfiler/MemoryProfiler call returned
    prepared,      \* a Prepare call on the instance has returned nil
    ncpu,          \* CPU profilers created from the instance
    nmemp,         \* memory profilers created from the instance
    \* --- pystackiter and the guest memory it reads
    pymem,         \* guest memory: the previous field of the frame at each address
    framep,        \* pystackiter.framep
    started,       \* pystackiter.started
    wpc,           \* where the walk of makeStackTrace is
    pyfns,         \* st.fns of the walk: the frames emitted so far
    pypcs,         \* st.pcs of the walk
    counter,       \* python.counter, the source of the frames' program counters
    wstart,        \* the start time cpuProfiler.Before read ahead of the walk
    \* --- Go symbolizer
    u,             \* the unwinder of the goStackIterator
    gostack,       \* a captured Go stack: per physical frame, its logical frames
    gopos,         \* physical frames of gostack symbolized so far
    symb,          \* the Locations results of the frames symbolized so far
    dsec,          \* a wasm data section: declared segment count, segments' lengths
    dit,           \* the dataIterator over dsec
    skip,          \* the SkipToDataOffset call under way or last made
    find,          \* the preparation of the pclntab symbolizer: its search of the moduledata
    \* --- trace buffers as Go slices over backing arrays
    backing,       \* the backing arrays allocated so far, by identity
    owner,         \* whose buffers and map these are: "cpu" or "mem"
    spare,         \* p.traces of the CPU profiler, as slices
    held,          \* the traces of p.frames (CPU) or the outstanding calls (memory)
    field,         \* the stack field of an allocator listener, as slices
    store,         \* the stackCounterMap: key -> the stored trace, as slices
    kept,          \* per key, the frames the trace held when it was stored
    \* --- buildProfile
    bld            \* the locals of a buildProfile call and the profile it builds

cpuVars == <<counts, heap, start, frames, traces, host>>
guestVars == <<calls, gpc, af, ncalls>>
clockVars == <<wallClock>>
threadVars == <<tpc, tsamples, tstart, ret, resp>>
allCpuVars == <<seed, mutex, cpuVars, guestVars, clockVars, threadVars>>

samplerVars == <<kind, cycle, count, stack, inner, open, nBefore>>

memVars == <<alloc, inuse, lstn, mcalls, mpc, mres, mlast, snap, nAlloc, sumAlloc, live, nmem>>

profVars == <<lang, prepareCalled, symbols, stackIterator, pret, prepared, ncpu, nmemp>>

pyVars == <<pymem, framep, started, wpc, pyfns, pypcs, counter, wstart>>

symVars == <<gostack, gopos, symb>>

dataVars == <<dsec, dit, skip, find>>

goVars == <<u, symVars, dataVars>>

bufVars == <<backing, owner, spare, held, field, store, kept>>

vars == <<allCpuVars, samplerVars, memVars, profVars, pyVars, goVars, bufVars, bld>>

\* Values maphash.MakeSeed may draw for the process.
HashSeeds == {1, 2}

\* ------------------------------------------------------ functions and stacks
\* The instrumented functions: one of the guest module, and one whose definition
\* has a Go implementation (a host function).
Funcs == {"guest", "host"}

\* def.GoFunction() != nil
IsHostFunction(f) == f = "host"

\* The program counter the stack iterator reports for a frame of function f.
PcOf(f) == IF f = "guest" THEN 1 ELSE 2

HashMul == Cardinality(Funcs) + 1

RECURSIVE HashBytes(_, _)
\* maphash.Bytes(seed, bytes): the words are folded into the seeded state in order.
HashBytes(h, pcs) ==
    IF pcs = <<>> THEN h
    ELSE HashBytes(h * HashMul + Head(pcs), Tail(pcs))

\* stackTrace{}
EmptyTrace == [fns |-> <<>>, pcs |-> <<>>, key |-> 0]

\* makeStackTrace that appends to the buffers without truncating them first.
makeStackTraceAppend(st, si) ==
    LET fns == st.fns \o [i \in 1 .. Len(si) |-> si[i].fn]
        pcs == st.pcs \o [i \in 1 .. Len(si) |-> si[i].pc]
    IN [fns |-> fns, pcs |-> pcs, key |-> HashBytes(seed, pcs)]

\* makeStackTrace(st, si): st's buffers are truncated to length 0 and refilled
\* from si, then the key is the seeded hash of the bytes of the PCs.
makeStackTrace(st, si) ==
    LET fns == SubSeq(st.fns, 1, 0) \o [i \in 1 .. Len(si) |-> si[i].fn]
        pcs == SubSeq(st.pcs, 1, 0) \o [i \in 1 .. Len(si) |-> si[i].pc]
    IN [fns |-> fns, pcs |-> pcs, key |-> HashBytes(seed, pcs)]

\* host() looking at the last frame, the root of the call stack.
TraceIsHostRoot(st) == Len(st.fns) > 0 /\ IsHostFunction(st.fns[Len(st.fns)])

\* stackTrace.host: the first frame (the function being called) is a host function.
TraceIsHost(st) == Len(st.fns) > 0 /\ IsHostFunction(st.fns[1])

\* stackTrace.clone
clone(st) == [fns |-> st.fns, pcs |-> st.pcs, key |-> st.key]

\* The stack iterator the runtime hands to Before when function f is entered:
\* f first, then its callers, innermost first.
StackIterator(f) ==
    LET n == Len(calls)
    IN <<[fn |-> f, pc |-> PcOf(f)]>> \o
       [i \in 1 .. n |-> [fn |-> calls[n + 1 - i].fn, pc |-> PcOf(calls[n + 1 - i].fn)]]

\* ------------------------------------------------------------ stackCounterMap
\* stackCounterMap.lookup: the counter under st.key, created on first use with a
\* clone of the trace.
lookup(scm, st) ==
    IF st.key \in DOMAIN scm THEN scm
    ELSE scm @@ (st.key :> [stack |-> clone(st), value |-> <<0, 0>>])

\* observe that keeps the last value instead of the total.
counterObserveLast(sc, val) ==
    [sc EXCEPT !.value = <<sc.value[1] + 1, val>>]

\* stackCounter.observe
counterObserve(sc, val) ==
    [sc EXCEPT !.value = <<sc.value[1] + 1, sc.value[2] + val>>]

\* stackCounterMap.observe
observe(scm, st, val) ==
    LET m == lookup(scm, st)
    IN [m EXCEPT ![st.key] = counterObserve(m[st.key], val)]

CountOf(scm, k) == IF k \in DOMAIN scm THEN scm[k].value[1] ELSE 0

TotalOf(scm, k) == IF k \in DOMAIN scm THEN scm[k].value[2] ELSE 0

\* ------------------------------------------------------------- CPU profiler
Threads == {"api", "http"}

MapIds == 1 .. (Cardinality(Threads) + 1)

\* make(stackCounterMap): a map object no one holds.
FreshMap == CHOOSE id \in MapIds :
    /\ id # counts
    /\ \A t \in Threads : tsamples[t] # id
    /\ \A o \in MapIds : (o # counts /\ \A t \in Threads : tsamples[t] # o) => id <= o

ZeroFrame == [start |-> 0, sub |-> 0, trace |-> EmptyTrace]

NoRet == [op |-> "none"]

\* StartProfile without the "already started" test: it always begins a profile.
StartProfileAlways(t) ==
    /\ mutex = "free"
    /\ counts' = FreshMap
    /\ heap' = [heap EXCEPT ![FreshMap] = EmptyMap]
    /\ start' = wallClock
    /\ ret' = [op |-> "start", by |-> t, ok |-> TRUE]

\* CPUProfiler.StartProfile, called by thread t (one critical section).
StartProfile(t) ==
    /\ mutex = "free"
    /\ IF counts # Nil
       THEN /\ ret' = [op |-> "start", by |-> t, ok |-> FALSE]
            /\ UNCHANGED <<counts, heap, start>>
       ELSE /\ counts' = FreshMap
            /\ heap' = [heap EXCEPT ![FreshMap] = EmptyMap]
            /\ start' = wallClock
            /\ ret' = [op |-> "start", by |-> t, ok |-> TRUE]

\* StopProfile that leaves the map it took in p.counts.
StopSwapKeep(t) ==
    /\ mutex = "free"
    /\ tsamples' = [tsamples EXCEPT ![t] = counts]
    /\ tstart' = [tstart EXCEPT ![t] = start]
    /\ counts' = counts

\* StopProfile that leaves the map in p.counts when it holds no sample yet.
StopSwapLazy(t) ==
    /\ mutex = "free"
    /\ tsamples' = [tsamples EXCEPT ![t] = counts]
    /\ tstart' = [tstart EXCEPT ![t] = start]
    /\ counts' = IF counts # Nil /\ heap[counts] = EmptyMap THEN counts ELSE Nil

\* CPUProfiler.StopProfile, first part: the critical section that takes the map.
StopSwap(t) ==
    /\ mutex = "free"
    /\ tsamples' = [tsamples EXCEPT ![t] = counts]
    /\ tstart' = [tstart EXCEPT ![t] = start]
    /\ counts' = Nil

\* The samples StopProfile keeps: without host time, those whose stack is not a
\* host call.
KeptSamples(samples) ==
    IF host THEN samples
    ELSE [k \in {x \in DOMAIN samples : ~TraceIsHost(samples[x].stack)} |-> samples[k]]

\* buildProfile: one sample per counter, values scaled by the ratios
\* (1/sampleRate for the count, 1 for the time).
buildProfile(samples, st, duration, rate) ==
    [samples |-> [k \in DOMAIN samples |->
                    [stack |-> samples[k].stack,
                     value |-> <<(samples[k].value[1] * rate[2]) \div rate[1],
                                 samples[k].value[2]>>]],
     start |-> st,
     duration |-> duration]

\* CPUProfiler.StopProfile, second part, on the locals samples and start.
StopBuild(t, rate) ==
    LET samples == tsamples[t]
    IN IF samples = Nil
       THEN /\ ret' = [op |-> "stop", by |-> t, found |-> FALSE, dropped |-> {},
                       profile |-> Nil]
            /\ UNCHANGED heap
       ELSE /\ ret' = [op |-> "stop", by |-> t, found |-> TRUE,
                       dropped |-> DOMAIN heap[samples] \ DOMAIN KeptSamples(heap[samples]),
                       profile |-> buildProfile(KeptSamples(heap[samples]), tstart[t],
                                                wallClock - tstart[t], rate)]
            \* the map is garbage once the profile is built
            /\ heap' = [heap EXCEPT ![samples] = EmptyMap]

\* After's locals when no After is between its pop and its observation.
NoAfter ==
    [trace |-> EmptyTrace, duration |-> 0, via |-> "none", wall |-> 0,
     kidsAll |-> 0, kidsTimed |-> 0, stopped |-> FALSE]

\* The guest's account of its calls once a StopProfile has taken the map: the
\* calls outstanding, and the one whose After is between its pop and its
\* observation, were entered before that StopProfile.
StoppedCalls == [i \in 1 .. Len(calls) |-> [calls[i] EXCEPT !.stopped = TRUE]]

StoppedAfter == [af EXCEPT !.stopped = (gpc = "observe")]

\* What the configured time function (TimeFunc) can return.
TimeVals == 0 .. MaxTime

\* Before that pushes a frame only while the profiler is running.
BeforeWhenRunning(f, t) ==
    /\ gpc = "run"
    /\ mutex = "free"
    /\ Len(calls) < MaxDepth
    /\ ncalls < MaxCalls
    /\ LET si == StackIterator(f)
           running == counts # Nil
           i == Len(traces)
           trace == IF i > 0 THEN traces[i] ELSE EmptyTrace
           frame == [start |-> t, sub |-> 0, trace |-> makeStackTrace(trace, si)]
       IN /\ frames' = IF running THEN Append(frames, frame) ELSE frames
          /\ traces' = IF running /\ i > 0 THEN SubSeq(traces, 1, i - 1) ELSE traces
          /\ calls' = Append(calls, [fn |-> f, entry |-> t, timed |-> running /\ t # 0,
                                     kidsAll |-> 0, kidsTimed |-> 0, stopped |-> FALSE])
    /\ ncalls' = ncalls + 1
    /\ UNCHANGED <<bld, bufVars, goVars, pyVars, profVars, memVars, samplerVars, seed, mutex, counts, heap, start, host, gpc, af, clockVars, threadVars>>

\* cpuProfiler.Before for a call of function f; p.time() would return t now.
Before(f, t) ==
    /\ gpc = "run"
    /\ mutex = "free"
    /\ Len(calls) < MaxDepth
    /\ ncalls < MaxCalls
    /\ LET si == StackIterator(f)
           running == counts # Nil
           i == Len(traces)
           trace == IF i > 0 THEN traces[i] ELSE EmptyTrace
           frame == IF running
                    THEN [start |-> t, sub |-> 0, trace |-> makeStackTrace(trace, si)]
                    ELSE ZeroFrame
       IN /\ frames' = Append(frames, frame)
          /\ traces' = IF running /\ i > 0 THEN SubSeq(traces, 1, i - 1) ELSE traces
          /\ calls' = Append(calls, [fn |-> f, entry |-> t, timed |-> frame.start # 0,
                                     kidsAll |-> 0, kidsTimed |-> 0, stopped |-> FALSE])
    /\ ncalls' = ncalls + 1
    /\ UNCHANGED <<bld, bufVars, goVars, pyVars, profVars, memVars, samplerVars, seed, mutex, counts, heap, start, host, gpc, af, clockVars, threadVars>>

\* The guest's own account of the call that returns at time t: its caller
\* accumulates the call's duration, among all its direct calls (kidsAll) and
\* among those the profiler timed (kidsTimed).
ReturnCall(t) ==
    LET n == Len(calls)
        c == calls[n]
        d == t - c.entry
        rest == Front(calls)
    IN IF n > 1
       THEN [rest EXCEPT ![n - 1].kidsAll = @ + d,
                         ![n - 1].kidsTimed = @ + (IF c.timed THEN d ELSE 0)]
       ELSE rest

\* After's "duration -= f.sub": the call's own time.
SelfTime(duration, sub) == duration - sub

\* cpuProfiler.After up to its critical section; p.time() returns t. The frame is
\* popped, its duration added to the parent's sub and its own sub subtracted.
AfterPop(via, t) ==
    /\ gpc = "run"
    /\ Len(frames) > 0
    /\ LET i == Len(frames)
           f == frames[i]
           rest == Front(frames)
           duration == t - f.start
           c == Last(calls)
       IN IF f.start # 0
          THEN /\ frames' = IF Len(rest) > 0
                            THEN [rest EXCEPT ![Len(rest)].sub = @ + duration]
                            ELSE rest
               /\ af' = [trace |-> f.trace, duration |-> SelfTime(duration, f.sub), via |-> via,
                         wall |-> t - c.entry,
                         kidsAll |-> c.kidsAll, kidsTimed |-> c.kidsTimed,
                         stopped |-> c.stopped]
               /\ gpc' = "observe"
          ELSE /\ frames' = rest
               /\ UNCHANGED <<af, gpc>>
    /\ calls' = ReturnCall(t)
    /\ UNCHANGED <<bld, bufVars, goVars, pyVars, profVars, memVars, samplerVars, seed, mutex, counts, heap, start, traces, host, ncalls, clockVars, threadVars>>

\* cpuProfiler.After from its critical section on: the observation, if the
\* profiler is running, then the trace buffer goes back to the free-list.
AfterObserve ==
    /\ gpc = "observe"
    /\ mutex = "free"
    /\ IF counts # Nil
       THEN heap' = [heap EXCEPT ![counts] = observe(heap[counts], af.trace, af.duration)]
       ELSE UNCHANGED heap
    /\ traces' = Append(traces, af.trace)
    /\ gpc' = "run"
    /\ af' = NoAfter
    /\ UNCHANGED <<bld, bufVars, goVars, pyVars, profVars, memVars, samplerVars, seed, mutex, counts, start, frames, host, calls, ncalls, clockVars, threadVars>>

\* cpuProfiler.After
After(t) == AfterPop("After", t)

\* cpuProfiler.Abort, which calls After.
Abort(t) == AfterPop("Abort", t)

\* The wall clock advances.
Tick ==
    /\ wallClock < MaxWall
    /\ wallClock' = wallClock + 1
    /\ UNCHANGED <<bld, bufVars, goVars, pyVars, profVars, memVars, samplerVars, seed, mutex, cpuVars, guestVars, threadVars>>

\* A host thread calls p.StartProfile().
ApiStart ==
    /\ tpc["api"] = "idle"
    /\ StartProfile("api")
    /\ UNCHANGED <<bld, bufVars, goVars, pyVars, profVars, memVars, samplerVars, seed, mutex, frames, traces, host, guestVars, clockVars, tpc, tsamples, tstart,
                   resp>>

\* A host thread calls p.StopProfile(sampleRate): the critical section.
ApiStop ==
    /\ tpc["api"] = "idle"
    /\ StopSwap("api")
    /\ tpc' = [tpc EXCEPT !["api"] = "build"]
    /\ calls' = StoppedCalls
    /\ af' = StoppedAfter
    /\ UNCHANGED <<bld, bufVars, goVars, pyVars, profVars, memVars, samplerVars, seed, mutex, heap, start, frames, traces, host, gpc, ncalls, clockVars, ret, resp>>

\* Sample rates as <<numerator, denominator>>.
NoSampling == <<1, 1>>

SampleRates == {NoSampling, <<1, 2>>}

\* The rest of that StopProfile call, up to its return.
ApiStopReturn(rate) ==
    /\ tpc["api"] = "build"
    /\ StopBuild("api", rate)
    /\ tpc' = [tpc EXCEPT !["api"] = "idle"]
    /\ tsamples' = [tsamples EXCEPT !["api"] = Nil]
    /\ tstart' = [tstart EXCEPT !["api"] = 0]
    /\ UNCHANGED <<bld, bufVars, goVars, pyVars, profVars, memVars, samplerVars, seed, mutex, counts, start, frames, traces, host, guestVars, clockVars, resp>>

\* --------------------------------------------- int64 durations of a request
\* An int64 is five limbs of 15 bits, least significant first, the last one
\* holding the top 4 bits (two's complement).
LimbBase == 2 ^ 15

TopBase == 2 ^ 4

\* The int64 of a natural below 2^31.
Word(n) == <<n % LimbBase, (n \div LimbBase) % LimbBase, n \div (LimbBase * LimbBase), 0, 0>>

RECURSIVE MulLimbFrom(_, _, _, _)
\* The limbs i.. of a * m for a single limb m, carry coming in.
MulLimbFrom(a, m, i, carry) ==
    IF i > Len(a) THEN <<>>
    ELSE LET p == a[i] * m + carry
         IN <<p % LimbBase>> \o MulLimbFrom(a, m, i + 1, p \div LimbBase)

RECURSIVE AddFrom(_, _, _, _)
\* The limbs i.. of a + b, carry coming in.
AddFrom(a, b, i, carry) ==
    IF i > Len(a) THEN <<>>
    ELSE LET p == a[i] + b[i] + carry
         IN <<p % LimbBase>> \o AddFrom(a, b, i + 1, p \div LimbBase)

\* a shifted up by k limbs, the limbs beyond the word dropped.
ShiftLimbs(a, k) == [i \in 1 .. Len(a) |-> IF i <= k THEN 0 ELSE a[i - k]]

RECURSIVE MulFrom(_, _, _)
\* The sum of a * b[j] shifted by j - 1 limbs, for the limbs j.. of b.
MulFrom(a, b, j) ==
    IF j > Len(b) THEN Word(0)
    ELSE AddFrom(ShiftLimbs(MulLimbFrom(a, b[j], 1, 0), j - 1), MulFrom(a, b, j + 1), 1, 0)

\* Go's int64 product: the low 64 bits.
Mul64(a, b) == [MulFrom(a, b, 1) EXCEPT ![Len(a)] = @ % TopBase]

\* The sign bit of an int64.
IsNegative(a) == a[Len(a)] >= TopBase \div 2

RECURSIVE GreaterFrom(_, _, _)
\* a > b on the limbs 1..i, as unsigned numbers.
GreaterFrom(a, b, i) ==
    IF i = 0 THEN FALSE
    ELSE IF a[i] # b[i] THEN a[i] > b[i]
    ELSE GreaterFrom(a, b, i - 1)

\* a > b for int64.
Greater64(a, b) ==
    IF IsNegative(a) # IsNegative(b) THEN IsNegative(b)
    ELSE GreaterFrom(a, b, Len(a))

\* time.Second, in nanoseconds.
Second == Word(1000000000)

\* The default duration of a profile, in seconds.
DefaultSeconds == 30

\* 9223372037, the least n for which n * 10^9 is beyond the largest int64.
HugeSeconds == <<32005, 19330, 8, 0, 0>>

\* -1 as an int64.
MinusOne == <<LimbBase - 1, LimbBase - 1, LimbBase - 1, LimbBase - 1, TopBase - 1>>

\* r.FormValue("seconds") through strconv.ParseInt(seconds, 10, 64): absent,
\* not a number, or an int64.
SecondsForms ==
    {[given |-> FALSE, parsed |-> FALSE, n |-> Word(0)],
     [given |-> TRUE, parsed |-> FALSE, n |-> Word(0)]}
    \cup {[given |-> TRUE, parsed |-> TRUE, n |-> w] :
            w \in {Word(0), MinusOne, Word(1), Word(DefaultSeconds + 1), HugeSeconds}}

\* ctx.Deadline(): none, or one with so many seconds left (time.Until).
Deadlines ==
    {[ok |-> FALSE, left |-> 0]} \cup {[ok |-> TRUE, left |-> l] : l \in {1, DefaultSeconds}}

\* The seconds the request asks for: n when the form value is a positive number,
\* the default otherwise.
RequestedSeconds(sec) ==
    IF sec.given /\ sec.parsed /\ Greater64(sec.n, Word(0)) THEN sec.n ELSE Word(DefaultSeconds)

\* The handler's duration: time.Duration(n) * time.Second.
RequestDuration(sec) == Mul64(RequestedSeconds(sec), Second)

\* The handler's test "duration > timeout" when the context has a deadline.
Exceeds(sec, dl) == dl.ok /\ Greater64(RequestDuration(sec), Mul64(Word(dl.left), Second))

\* What the test comes to over the requests a handler can get.
RequestOutcomes == {Exceeds(sec, dl) : sec \in SecondsForms, dl \in Deadlines}

StatusBadRequest == 400

StatusInternalServerError == 500

StatusOK == 200

\* The handler of NewHandler(sampleRate) takes a request: a duration beyond the
\* deadline is refused, then StartProfile, then the wait for the timer.
HandlerServe(exceeds) ==
    /\ tpc["http"] = "idle"
    /\ IF exceeds
       THEN /\ resp' = [status |-> StatusBadRequest, panicked |-> FALSE]
            /\ UNCHANGED <<counts, heap, start, ret, tpc>>
       ELSE /\ StartProfile("http")
            /\ IF ~ret'.ok
               THEN /\ resp' = [status |-> StatusInternalServerError, panicked |-> FALSE]
                    /\ UNCHANGED tpc
               ELSE /\ tpc' = [tpc EXCEPT !["http"] = "waiting"]
                    /\ UNCHANGED resp
    /\ UNCHANGED <<bld, bufVars, goVars, pyVars, profVars, memVars, samplerVars, seed, mutex, frames, traces, host, guestVars, clockVars, tsamples, tstart>>

\* The timer fires or the request context ends: the handler calls StopProfile.
HandlerStop ==
    /\ tpc["http"] = "waiting"
    /\ StopSwap("http")
    /\ tpc' = [tpc EXCEPT !["http"] = "build"]
    /\ calls' = StoppedCalls
    /\ af' = StoppedAfter
    /\ UNCHANGED <<bld, bufVars, goVars, pyVars, profVars, memVars, samplerVars, seed, mutex, heap, start, frames, traces, host, gpc, ncalls, clockVars, ret, resp>>

\* serveProfile(w, prof): prof.Write(w) sends the profile with the default
\* status; on a nil profile (StopProfile found no map) the method dereferences
\* nil and the handler panics before it has written a status.
serveProfile(stopped) ==
    IF ~stopped.found
    THEN [status |-> 0, panicked |-> TRUE]
    ELSE [status |-> StatusOK, panicked |-> FALSE]

\* The handler's StopProfile returns and the profile is served.
HandlerReply(rate) ==
    /\ tpc["http"] = "build"
    /\ StopBuild("http", rate)
    /\ tpc' = [tpc EXCEPT !["http"] = "idle"]
    /\ tsamples' = [tsamples EXCEPT !["http"] = Nil]
    /\ tstart' = [tstart EXCEPT !["http"] = 0]
    /\ resp' = serveProfile(ret')
    /\ UNCHANGED <<bld, bufVars, goVars, pyVars, profVars, memVars, samplerVars, seed, mutex, counts, start, frames, traces, host, guestVars, clockVars>>

\* ------------------------------------------------------------------ sampler
CeilDiv(a, b) == (a + b - 1) \div b

\* Sample(sampleRate, factory), the rate given as <<numerator, denominator>>:
\* which listener the returned factory makes, and its cycle = ceil(1/sampleRate).
Sample(rate) ==
    IF rate[1] <= 0 THEN [kind |-> "none", cycle |-> 0]
    ELSE IF rate[1] >= rate[2] THEN [kind |-> "inner", cycle |-> 0]
    ELSE [kind |-> "sampled", cycle |-> CeilDiv(rate[2], rate[1])]

\* A sampled listener that forwards its first call.
InitialCountOne(c) == 1

\* The count a new sampledFunctionListener starts with.
InitialCount(c) == c

\* Bits in a word of bitstack.bits.
WordBits == 64

\* A uint64 word is the set of the positions of its one bits.
ZeroWord == {}

\* push that sets the bit without clearing the position first.
pushKeepBit(s, bit) ==
    LET index == s.size \div WordBits
        shift == s.size % WordBits
        bits == IF index >= Len(s.bits)
                THEN [i \in 1 .. index + 1 |-> IF i <= Len(s.bits) THEN s.bits[i] ELSE ZeroWord]
                ELSE s.bits
        word == IF bit % 2 = 1 THEN bits[index + 1] \cup {shift} ELSE bits[index + 1]
    IN [size |-> s.size + 1, bits |-> [bits EXCEPT ![index + 1] = word]]

\* bitstack.push
push(s, bit) ==
    LET index == s.size \div WordBits
        shift == s.size % WordBits
        bits == IF index >= Len(s.bits)
                THEN [i \in 1 .. index + 1 |-> IF i <= Len(s.bits) THEN s.bits[i] ELSE ZeroWord]
                ELSE s.bits
        cleared == bits[index + 1] \ {shift}
        word == IF bit % 2 = 1 THEN cleared \cup {shift} ELSE cleared
    IN [size |-> s.size + 1, bits |-> [bits EXCEPT ![index + 1] = word]]

\* pop that leaves the size as it is.
popStackKeep(s) == s

\* bitstack.pop: the stack it leaves.
popStack(s) == [s EXCEPT !.size = s.size - 1]

\* pop that reads the bit at the old size, above the top.
popBitAbove(s) ==
    LET index == s.size \div WordBits
        shift == s.size % WordBits
    IN IF index < Len(s.bits) /\ shift \in s.bits[index + 1] THEN 1 ELSE 0

\* bitstack.pop: the bit it returns.
popBit(s) ==
    LET size == s.size - 1
        index == size \div WordBits
        shift == size % WordBits
    IN IF shift \in s.bits[index + 1] THEN 1 ELSE 0

\* pop of an empty stack that returns a one bit and leaves the stack empty.
popEmptyReturnsBit(s) ==
    IF s.size = 0 THEN [panic |-> FALSE, bit |-> 1, stack |-> s]
    ELSE [panic |-> FALSE, bit |-> popBit(s), stack |-> popStack(s)]

\* bitstack.pop as a whole. s.size is a uint: taking 1 from 0 wraps to the
\* highest uint, written -1 here (the same bits), whose word index is beyond
\* the length of any slice, so that s.bits[index] panics with the index out of
\* range.
pop(s) ==
    LET size == s.size - 1
    IN IF size < 0 \/ size \div WordBits >= Len(s.bits)
       THEN [panic |-> TRUE, bit |-> 0, stack |-> [s EXCEPT !.size = size]]
       ELSE [panic |-> FALSE, bit |-> popBit(s), stack |-> popStack(s)]

\* The inner listener's Before.
InnerGotBefore == [inner EXCEPT !.before = @ + 1, !.open = @ + 1]

\* An After of the inner listener that it does not count.
InnerGotAfterUncounted == [inner EXCEPT !.open = @ - 1]

\* The inner listener's After.
InnerGotAfter == [inner EXCEPT !.after = @ + 1, !.open = @ - 1]

\* The inner listener's Abort.
InnerGotAbort == [inner EXCEPT !.abort = @ + 1, !.open = @ - 1]

\* sampledFunctionListener.Before
SampledBefore ==
    /\ kind = "sampled"
    /\ Len(open) < MaxSampleDepth
    /\ nBefore < MaxSampleCalls
    /\ LET c == count - 1
       IN IF c = 0
          THEN /\ count' = cycle
               /\ inner' = InnerGotBefore
               /\ stack' = push(stack, 1)
          ELSE /\ count' = c
               /\ inner' = inner
               /\ stack' = push(stack, 0)
    /\ open' = Append(open, inner'.before # inner.before)
    /\ nBefore' = nBefore + 1
    /\ UNCHANGED <<bld, bufVars, goVars, pyVars, profVars, memVars, allCpuVars, kind, cycle>>

\* sampledFunctionListener.After. A panic of pop leaves the listener's
\* goroutine: no method of the listener runs after it.
SampledAfter ==
    /\ kind = "sampled"
    /\ LET r == pop(stack)
       IN /\ stack' = r.stack
          /\ kind' = IF r.panic THEN "panicked" ELSE kind
          /\ inner' = IF ~r.panic /\ r.bit # 0 THEN InnerGotAfter ELSE inner
          /\ open' = IF r.panic THEN open ELSE Front(open)
    /\ UNCHANGED <<bld, bufVars, goVars, pyVars, profVars, memVars, allCpuVars, cycle, count, nBefore>>

\* sampledFunctionListener.Abort
SampledAbort ==
    /\ kind = "sampled"
    /\ LET r == pop(stack)
       IN /\ stack' = r.stack
          /\ kind' = IF r.panic THEN "panicked" ELSE kind
          /\ inner' = IF ~r.panic /\ r.bit # 0 THEN InnerGotAbort ELSE inner
          /\ open' = IF r.panic THEN open ELSE Front(open)
    /\ UNCHANGED <<bld, bufVars, goVars, pyVars, profVars, memVars, allCpuVars, cycle, count, nBefore>>

\* With a rate of one or more the factory's own listener gets every Before.
DirectBefore ==
    /\ kind = "inner"
    /\ Len(open) < MaxSampleDepth
    /\ nBefore < MaxSampleCalls
    /\ inner' = InnerGotBefore
    /\ open' = Append(open, TRUE)
    /\ nBefore' = nBefore + 1
    /\ UNCHANGED <<bld, bufVars, goVars, pyVars, profVars, memVars, allCpuVars, kind, cycle, count, stack>>

\* ... and every After.
DirectAfter ==
    /\ kind = "inner"
    /\ Len(open) > 0
    /\ inner' = InnerGotAfter
    /\ open' = Front(open)
    /\ UNCHANGED <<bld, bufVars, goVars, pyVars, profVars, memVars, allCpuVars, kind, cycle, count, stack, nBefore>>

\* ... and every Abort.
DirectAbort ==
    /\ kind = "inner"
    /\ Len(open) > 0
    /\ inner' = InnerGotAbort
    /\ open' = Front(open)
    /\ UNCHANGED <<bld, bufVars, goVars, pyVars, profVars, memVars, allCpuVars, kind, cycle, count, stack, nBefore>>

\* The listener a factory made by Sample(rate, factory) returns.
NewSampledListener(rate) ==
    /\ kind = Sample(rate).kind
    /\ cycle = Sample(rate).cycle
    /\ count = InitialCount(Sample(rate).cycle)
    /\ stack = [size |-> 0, bits |-> <<ZeroWord>>]
    /\ inner = [before |-> 0, after |-> 0, abort |-> 0, open |-> 0]
    /\ open = <<>>
    /\ nBefore = 0

\* Rates at and beyond both ends of (0, 1), and inside it.
SamplerRates == {<<0, 1>>, <<1, 1>>, <<1, 2>>, <<3, 4>>, <<1, 3>>, <<1, 4>>, <<1, 10>>}

\* ------------------------------------------------ a bitstack on its own
\* Bits pushed at once: two words filled and a third begun.
MaxBitDepth == 130

\* The bits pushed at depth d: either bit at the two ends of a word, and the
\* parity of the depth inside it.
BitsAt(d) == IF d % WordBits \in {0, WordBits - 1} THEN {0, 1} ELSE {d % 2}

\* s.stack.push(bit); open holds the bits pushed and not yet popped.
bitstackPush(bit) ==
    /\ kind = "sampled"
    /\ stack.size < MaxBitDepth
    /\ bit \in BitsAt(stack.size)
    /\ stack' = push(stack, bit)
    /\ open' = Append(open, bit = 1)
    /\ UNCHANGED <<bld, bufVars, goVars, pyVars, profVars, memVars, allCpuVars, kind, cycle, count, inner, nBefore>>

\* s.stack.pop() of a stack that is not empty.
bitstackPop ==
    /\ kind = "sampled"
    /\ stack.size > 0
    /\ stack' = pop(stack).stack
    /\ open' = Front(open)
    /\ UNCHANGED <<bld, bufVars, goVars, pyVars, profVars, memVars, allCpuVars, kind, cycle, count, inner, nBefore>>

\* ---------------------------------------------------------- memory profiler
\* The allocator functions MemoryProfiler.NewFunctionListener gives a listener.
MemFuncs == {"malloc", "calloc", "realloc", "free", "runtime.mallocgc"}

\* Guest addresses (0 is NULL) and sizes.
Addrs == {0, 1}

Sizes == {1, 2}

\* The (count, size) arguments of the calloc calls: those of
\* TestProfilerMemory_calloc, and a pair whose product is 2^32 + 2^17.
CallocArgs == {<<42, 11>>, <<65536, 65538>>}

\* A uint32 is two 16-bit halves, a half two bytes.
HalfWord == 65536
ByteWord == 256

\* The low 16 bits of the product of two 16-bit halves.
MulLow16(x, y) ==
    LET x0 == x % ByteWord
        x1 == x \div ByteWord
        y0 == y % ByteWord
        y1 == y \div ByteWord
    IN (x0 * y0 + ((x1 * y0 + x0 * y1) % ByteWord) * ByteWord) % HalfWord

\* The product of two 16-bit halves, as its high and low halves.
MulFull16(x, y) ==
    LET x0 == x % ByteWord
        x1 == x \div ByteWord
        y0 == y % ByteWord
        y1 == y \div ByteWord
        t1 == x1 * y0 + x0 * y1
        low == x0 * y0 + (t1 % ByteWord) * ByteWord
    IN [hi |-> x1 * y1 + t1 \div ByteWord + low \div HalfWord, lo |-> low % HalfWord]

\* The product of the calloc arguments that takes the count alone.
U32MulFirst(a, b) == a

\* a * b of two uint32: the low 32 bits of the product.
U32Mul(a, b) ==
    LET ah == a \div HalfWord
        al == a % HalfWord
        bh == b \div HalfWord
        bl == b % HalfWord
        low == MulFull16(al, bl)
        hi == (low.hi + MulLow16(ah, bl) + MulLow16(al, bh)) % HalfWord
    IN hi * HalfWord + low.lo

\* The stacks the runtime reports at the entry of an allocator function.
MemStacks == {<<[fn |-> "guest", pc |-> 1]>>, <<[fn |-> "guest", pc |-> 2]>>}

\* A listener as NewFunctionListener makes it: every field zero.
ZeroListener == [addr |-> 0, count |-> 0, size |-> 0, stack |-> EmptyTrace]

NoCall == [fn |-> "", ok |-> FALSE, freed |-> FALSE]

NoSnapshot == [taken |-> FALSE, samples |-> EmptyMap]

\* observeAlloc that files the record without looking the counter up.
observeAllocNoLookup(addr, size, st) ==
    [alloc |-> alloc,
     inuse |-> [a \in DOMAIN inuse \cup {addr} |->
                   IF a = addr THEN [counter |-> st.key, size |-> size] ELSE inuse[a]]]

\* MemoryProfiler.observeAlloc: p.alloc and p.inuse after it.
observeAlloc(addr, size, st) ==
    LET m == lookup(alloc, st)
    IN [alloc |-> [m EXCEPT ![st.key] = counterObserve(m[st.key], size)],
        inuse |-> [a \in DOMAIN inuse \cup {addr} |->
                      IF a = addr THEN [counter |-> st.key, size |-> size] ELSE inuse[a]]]

\* observeFree that leaves the record in place.
observeFreeKeep(addr) == inuse

\* MemoryProfiler.observeFree: p.inuse after it.
observeFree(addr) == [a \in DOMAIN inuse \ {addr} |-> inuse[a]]

\* observeAlloc as a step, with the bookkeeping of what has been observed.
DoObserveAlloc(addr, size, st) ==
    /\ alloc' = observeAlloc(addr, size, st).alloc
    /\ inuse' = observeAlloc(addr, size, st).inuse
    /\ nAlloc' = nAlloc + 1
    /\ sumAlloc' = sumAlloc + size
    /\ live' = [live EXCEPT ![addr] = Append(@, st.key)]

\* observeFree that also takes the freed allocation out of its stack's counter.
DoObserveFreeUncount(addr) ==
    /\ inuse' = observeFree(addr)
    /\ alloc' = IF addr \in DOMAIN inuse
                THEN [alloc EXCEPT ![inuse[addr].counter].value =
                          <<@[1] - 1, @[2] - inuse[addr].size>>]
                ELSE alloc
    /\ live' = [live EXCEPT ![addr] = IF @ = <<>> THEN @ ELSE Front(@)]

\* observeFree as a step: the allocation last observed at addr is freed; p.alloc
\* is not touched.
DoObserveFree(addr) ==
    /\ inuse' = observeFree(addr)
    /\ alloc' = alloc
    /\ live' = [live EXCEPT ![addr] = IF @ = <<>> THEN @ ELSE Front(@)]

\* snapshot that files every in-use record under every stack.
snapshotAnyStack ==
    LET keys == {alloc[k].stack.key : k \in DOMAIN alloc}
        counters(key) == {k \in DOMAIN alloc : alloc[k].stack.key = key}
        records(key) == DOMAIN inuse
    IN [key \in keys |->
          [stack |-> alloc[CHOOSE k \in counters(key) : TRUE].stack,
           value |-> << SumOver([k \in counters(key) |-> alloc[k].value[1]], counters(key)),
                        SumOver([k \in counters(key) |-> alloc[k].value[2]], counters(key)),
                        Cardinality(records(key)),
                        SumOver([a \in records(key) |-> inuse[a].size], records(key)) >>]]

\* MemoryProfiler.snapshot
snapshot ==
    LET keys == {alloc[k].stack.key : k \in DOMAIN alloc}
        counters(key) == {k \in DOMAIN alloc : alloc[k].stack.key = key}
        records(key) == {a \in DOMAIN inuse : alloc[inuse[a].counter].stack.key = key}
    IN [key \in keys |->
          [stack |-> alloc[CHOOSE k \in counters(key) : TRUE].stack,
           value |-> << SumOver([k \in counters(key) |-> alloc[k].value[1]], counters(key)),
                        SumOver([k \in counters(key) |-> alloc[k].value[2]], counters(key)),
                        Cardinality(records(key)),
                        SumOver([a \in records(key) |-> inuse[a].size], records(key)) >>]]

\* Entering an allocator function: the call is pushed on the guest's stack.
Enter(fn, args) ==
    /\ mpc = "run"
    /\ Len(mcalls) < MaxMemDepth
    /\ nmem < MaxMemCalls
    /\ mcalls' = Append(mcalls, [fn |-> fn] @@ args)
    /\ nmem' = nmem + 1
    /\ mlast' = NoCall

\* Returning from the allocator function fn.
Leave(fn) ==
    /\ mpc = "run"
    /\ mcalls # <<>>
    /\ Last(mcalls).fn = fn
    /\ mcalls' = Front(mcalls)

\* mallocProfiler.Before
MallocBefore(size, si) ==
    /\ Enter("malloc", [size |-> size])
    /\ lstn' = [lstn EXCEPT !["malloc"].size = size,
                            !["malloc"].stack = makeStackTrace(@, si)]
    /\ UNCHANGED <<bld, bufVars, goVars, pyVars, profVars, allCpuVars, samplerVars, alloc, inuse, mpc, mres, snap, nAlloc, sumAlloc, live>>

\* mallocProfiler.After
MallocAfter(err, res) ==
    /\ Leave("malloc")
    /\ mlast' = [fn |-> "malloc", ok |-> ~err, freed |-> FALSE]
    /\ IF ~err
       THEN DoObserveAlloc(res, lstn["malloc"].size, lstn["malloc"].stack)
       ELSE UNCHANGED <<alloc, inuse, nAlloc, sumAlloc, live>>
    /\ UNCHANGED <<bld, bufVars, goVars, pyVars, profVars, allCpuVars, samplerVars, lstn, mpc, mres, snap, nmem>>

\* callocProfiler.Before
CallocBefore(cnt, size, si) ==
    /\ Enter("calloc", [count |-> cnt, size |-> size])
    /\ lstn' = [lstn EXCEPT !["calloc"].count = cnt,
                            !["calloc"].size = size,
                            !["calloc"].stack = makeStackTrace(@, si)]
    /\ UNCHANGED <<bld, bufVars, goVars, pyVars, profVars, allCpuVars, samplerVars, alloc, inuse, mpc, mres, snap, nAlloc, sumAlloc, live>>

\* callocProfiler.After
CallocAfter(err, res) ==
    /\ Leave("calloc")
    /\ mlast' = [fn |-> "calloc", ok |-> ~err, freed |-> FALSE]
    /\ IF ~err
       THEN DoObserveAlloc(res, U32Mul(lstn["calloc"].count, lstn["calloc"].size), lstn["calloc"].stack)
       ELSE UNCHANGED <<alloc, inuse, nAlloc, sumAlloc, live>>
    /\ UNCHANGED <<bld, bufVars, goVars, pyVars, profVars, allCpuVars, samplerVars, lstn, mpc, mres, snap, nmem>>

\* reallocProfiler.Before
ReallocBefore(addr, size, si) ==
    /\ Enter("realloc", [addr |-> addr, size |-> size])
    /\ lstn' = [lstn EXCEPT !["realloc"].addr = addr,
                            !["realloc"].size = size,
                            !["realloc"].stack = makeStackTrace(@, si)]
    /\ UNCHANGED <<bld, bufVars, goVars, pyVars, profVars, allCpuVars, samplerVars, alloc, inuse, mpc, mres, snap, nAlloc, sumAlloc, live>>

\* reallocProfiler.After, up to the end of its observeFree (or all of it when
\* the call failed).
ReallocAfter(err, res) ==
    /\ mpc = "run"
    /\ mcalls # <<>>
    /\ Last(mcalls).fn = "realloc"
    /\ IF ~err
       THEN /\ DoObserveFree(lstn["realloc"].addr)
            /\ mpc' = "realloc"
            /\ mres' = res
            /\ mlast' = [fn |-> "realloc", ok |-> TRUE, freed |-> lstn["realloc"].addr \in DOMAIN inuse]
            /\ UNCHANGED mcalls
       ELSE /\ mcalls' = Front(mcalls)
            /\ mlast' = [fn |-> "realloc", ok |-> FALSE, freed |-> FALSE]
            /\ UNCHANGED <<alloc, inuse, live, mpc, mres>>
    /\ UNCHANGED <<bld, bufVars, goVars, pyVars, profVars, allCpuVars, samplerVars, lstn, snap, nAlloc, sumAlloc, nmem>>

\* reallocProfiler.After: its observeAlloc, and the return.
ReallocAlloc ==
    /\ mpc = "realloc"
    /\ DoObserveAlloc(mres, lstn["realloc"].size, lstn["realloc"].stack)
    /\ mcalls' = Front(mcalls)
    /\ mpc' = "run"
    /\ UNCHANGED <<bld, bufVars, goVars, pyVars, profVars, allCpuVars, samplerVars, lstn, mres, mlast, snap, nmem>>

\* freeProfiler.Before
FreeBefore(addr) ==
    /\ Enter("free", [addr |-> addr])
    /\ lstn' = [lstn EXCEPT !["free"].addr = addr]
    /\ UNCHANGED <<bld, bufVars, goVars, pyVars, profVars, allCpuVars, samplerVars, alloc, inuse, mpc, mres, snap, nAlloc, sumAlloc, live>>

\* freeProfiler.After
FreeAfter(err) ==
    /\ Leave("free")
    /\ mlast' = [fn |-> "free", ok |-> ~err, freed |-> ~err /\ lstn["free"].addr \in DOMAIN inuse]
    /\ IF ~err
       THEN DoObserveFree(lstn["free"].addr)
       ELSE UNCHANGED <<alloc, inuse, live>>
    /\ UNCHANGED <<bld, bufVars, goVars, pyVars, profVars, allCpuVars, samplerVars, lstn, mpc, mres, snap, nAlloc, sumAlloc, nmem>>

\* goRuntimeMallocgcProfiler.Before: ok tells whether the guest's stack slot can
\* be read, size is what it holds.
MallocgcBefore(ok, size, si) ==
    /\ Enter("runtime.mallocgc", [size |-> IF ok THEN size ELSE 0])
    /\ lstn' = IF ok
               THEN [lstn EXCEPT !["runtime.mallocgc"].size = size,
                                 !["runtime.mallocgc"].stack = makeStackTrace(@, si)]
               ELSE [lstn EXCEPT !["runtime.mallocgc"].size = 0]
    /\ UNCHANGED <<bld, bufVars, goVars, pyVars, profVars, allCpuVars, samplerVars, alloc, inuse, mpc, mres, snap, nAlloc, sumAlloc, live>>

\* goRuntimeMallocgcProfiler.After: the allocation is recorded at address 0.
MallocgcAfter(err) ==
    /\ Leave("runtime.mallocgc")
    /\ mlast' = [fn |-> "runtime.mallocgc", ok |-> ~err, freed |-> FALSE]
    /\ IF ~err /\ lstn["runtime.mallocgc"].size # 0
       THEN DoObserveAlloc(0, lstn["runtime.mallocgc"].size, lstn["runtime.mallocgc"].stack)
       ELSE UNCHANGED <<alloc, inuse, nAlloc, sumAlloc, live>>
    /\ UNCHANGED <<bld, bufVars, goVars, pyVars, profVars, allCpuVars, samplerVars, lstn, mpc, mres, snap, nmem>>

\* A host thread takes a snapshot (MemoryProfiler.NewProfile).
TakeSnapshot ==
    /\ snap' = [taken |-> TRUE, samples |-> snapshot]
    /\ UNCHANGED <<bld, bufVars, goVars, pyVars, profVars, allCpuVars, samplerVars, alloc, inuse, lstn, mcalls, mpc, mres, mlast, nAlloc, sumAlloc, live, nmem>>

\* NewMemoryProfiler, and no listener called yet.
NewMemoryProfiler ==
    /\ alloc = EmptyMap
    /\ inuse = EmptyMap
    /\ lstn = [fn \in MemFuncs |-> ZeroListener]
    /\ mcalls = <<>>
    /\ mpc = "run"
    /\ mres = 0
    /\ mlast = NoCall
    /\ snap = NoSnapshot
    /\ nAlloc = 0
    /\ sumAlloc = 0
    /\ live = [a \in Addrs |-> <<>>]
    /\ nmem = 0

\* ---------------------------------------------------------------- Profiling
\* language
Languages == {"unknown", "golang", "python311"}

\* symbolizer.Locations for the kind of symbolizer p.symbols is. The null
\* symbolizer resolves nothing; the others resolve the PCs they know (known) to
\* a location named after the debug information.
Locations(sym, fn, pc, known) ==
    IF sym = "noop" \/ ~known THEN <<>>
    ELSE <<[StableName |-> "debug:" \o fn, HumanName |-> "debug:" \o fn]>>

\* locationForCall: the names of the function of the first line of the location.
locationForCall(sym, fn, pc, known) ==
    LET found == IF pc > 0 THEN Locations(sym, fn, pc, known) ELSE <<>>
        locations == IF Len(found) = 0 THEN <<[StableName |-> "", HumanName |-> ""]>> ELSE found
    IN [SystemName |-> IF locations[1].StableName = "" THEN fn ELSE locations[1].StableName,
        Name |-> IF locations[1].HumanName = "" THEN fn ELSE locations[1].HumanName]

\* ProfilingFor(wasm), for a binary detected as language l.
ProfilingFor(l) ==
    /\ lang = l
    /\ prepareCalled = FALSE
    /\ symbols = "noop"
    /\ stackIterator = "wasm"
    /\ pret = [op |-> "none"]
    /\ prepared = FALSE
    /\ ncpu = 0
    /\ nmemp = 0

\* A Profiling instance of a module of unknown language on which Prepare found
\* DWARF.
ProfilingReady ==
    /\ lang = "unknown"
    /\ prepareCalled = TRUE
    /\ symbols = "dwarf"
    /\ stackIterator = "wasm"
    /\ pret = [op |-> "Prepare", err |-> FALSE]
    /\ prepared = TRUE
    /\ ncpu = 0
    /\ nmemp = 0

\* Profiling.Prepare(mod); ok tells whether the preparation of the module's
\* language succeeds: preparePclntabSymbolizer, preparePython, or newDwarfparser.
Prepare(ok) ==
    /\ IF lang = "golang"
       THEN IF ok
            THEN /\ symbols' = "pclntab"
                 /\ stackIterator' = "go"
                 /\ prepareCalled' = TRUE
                 /\ pret' = [op |-> "Prepare", err |-> FALSE]
            ELSE /\ pret' = [op |-> "Prepare", err |-> TRUE]
                 /\ UNCHANGED <<symbols, stackIterator, prepareCalled>>
       ELSE IF lang = "python311"
       THEN IF ok
            THEN /\ symbols' = "python"
                 /\ stackIterator' = "python"
                 /\ prepareCalled' = TRUE
                 /\ pret' = [op |-> "Prepare", err |-> FALSE]
            ELSE /\ pret' = [op |-> "Prepare", err |-> TRUE]
                 /\ UNCHANGED <<symbols, stackIterator, prepareCalled>>
       ELSE IF ok
            THEN /\ symbols' = "dwarf"
                 /\ prepareCalled' = TRUE
                 /\ pret' = [op |-> "Prepare", err |-> FALSE]
                 /\ UNCHANGED stackIterator
            \* newDwarfparser failed: "return nil", before the flag is set
            ELSE /\ pret' = [op |-> "Prepare", err |-> FALSE]
                 /\ UNCHANGED <<symbols, stackIterator, prepareCalled>>
    /\ prepared' = (prepared \/ ~pret'.err)
    /\ UNCHANGED <<bld, bufVars, goVars, pyVars, allCpuVars, samplerVars, memVars, lang, ncpu, nmemp>>

\* Profiling.CPUProfiler(options...)
NewCPUProfiler ==
    /\ ncpu < MaxProfilers
    /\ IF ~prepareCalled
       THEN /\ pret' = [op |-> "CPUProfiler", err |-> TRUE, profiler |-> FALSE]
            /\ UNCHANGED ncpu
       ELSE /\ pret' = [op |-> "CPUProfiler", err |-> FALSE, profiler |-> TRUE]
            /\ ncpu' = ncpu + 1
    /\ UNCHANGED <<bld, bufVars, goVars, pyVars, allCpuVars, samplerVars, memVars, lang, prepareCalled, symbols, stackIterator,
                   prepared, nmemp>>

\* Profiling.MemoryProfiler(options...)
NewMemProfiler ==
    /\ nmemp < MaxProfilers
    /\ IF ~prepareCalled
       THEN /\ pret' = [op |-> "MemoryProfiler", err |-> TRUE, profiler |-> FALSE]
            /\ UNCHANGED nmemp
       ELSE /\ pret' = [op |-> "MemoryProfiler", err |-> FALSE, profiler |-> TRUE]
            /\ nmemp' = nmemp + 1
    /\ UNCHANGED <<bld, bufVars, goVars, pyVars, allCpuVars, samplerVars, memVars, lang, prepareCalled, symbols, stackIterator,
                   prepared, ncpu>>

\* Names of functions of a guest module: the Python opt-in function, another
\* function of the interpreter, an allocator, and a function of the Go runtime
\* that cannot be instrumented.
DefNames == {"PyObject_Vectorcall", "_PyEval_EvalFrameDefault", "malloc", "memcmp"}

\* r.filteredFunctions as ProfilingFor sets it for language l (of its names,
\* those of DefNames).
FilteredFunctions(l) == IF l = "golang" THEN {"memcmp"} ELSE {}

\* r.onlyFunctions as ProfilingFor sets it for language l.
OnlyFunctions(l) == IF l = "python311" THEN {"PyObject_Vectorcall"} ELSE {}

\* The names MemoryProfiler.NewFunctionListener has a listener for.
AllocatorNames ==
    {"malloc", "calloc", "realloc", "free", "runtime.mallocgc", "runtime.alloc"}

\* CPUProfiler.NewFunctionListener(def), on a profiler of the instance.
CPUNewFunctionListener(name) ==
    /\ ncpu > 0
    /\ pret' = [op |-> "NewFunctionListener", profiler |-> "cpu", name |-> name,
                listener |-> name \notin FilteredFunctions(lang)]
    /\ UNCHANGED <<bld, bufVars, goVars, pyVars, allCpuVars, samplerVars, memVars, lang, prepareCalled, symbols,
                   stackIterator, prepared, ncpu, nmemp>>

\* MemoryProfiler.NewFunctionListener(def), on a profiler of the instance.
MemoryNewFunctionListener(name) ==
    /\ nmemp > 0
    /\ pret' = [op |-> "NewFunctionListener", profiler |-> "memory", name |-> name,
                listener |-> name \in AllocatorNames]
    /\ UNCHANGED <<bld, bufVars, goVars, pyVars, allCpuVars, samplerVars, memVars, lang, prepareCalled, symbols,
                   stackIterator, prepared, ncpu, nmemp>>

\* ------------------------------------------------------ Python stack walk
\* What the time function returns to the callbacks of a Python guest.
PyTimes == {1}

\* Addresses at which a _PyInterpreterFrame can be read.
PyAddrs == 1 .. MaxPyFrames

\* An address vmem.Read refuses (out of range).
PyOutOfRange == MaxPyFrames + 1

\* What a 32-bit pointer read from the guest memory can hold.
PyPointers == {0} \cup PyAddrs \cup {PyOutOfRange}

\* No Python walk has been made; the guest memory holds no frame chain yet.
NoWalk ==
    /\ pymem = [a \in PyAddrs |-> 0]
    /\ framep = 0
    /\ started = FALSE
    /\ wpc = "idle"
    /\ pyfns = <<>>
    /\ pypcs = <<>>
    /\ counter = 0
    /\ wstart = 0

\* Between two callbacks the guest writes the previous field of a frame.
GuestWrite(a, v) ==
    /\ wpc # "walk"
    /\ pymem' = [pymem EXCEPT ![a] = v]
    /\ UNCHANGED <<bld, bufVars, goVars, allCpuVars, samplerVars, memVars, profVars, framep, started, wpc, pyfns, pypcs,
                   counter, wstart>>

\* python.Stackiter followed by the start of makeStackTrace: the iterator is
\* at the current frame read from the runtime state (readable tells whether
\* those three reads are in range), st.fns is truncated.
Stackiter(readable, fp) ==
    /\ wpc # "walk"
    /\ IF readable
       THEN /\ framep' = fp
            /\ started' = FALSE
            /\ wpc' = "walk"
            /\ pyfns' = <<>>
            /\ pypcs' = <<>>
       ELSE /\ wpc' = "panicked"
            /\ UNCHANGED <<framep, started, pyfns, pypcs>>
    /\ UNCHANGED <<bld, bufVars, goVars, allCpuVars, samplerVars, memVars, profVars, pymem, counter, wstart>>

\* deref[ptr32](p.mem, p.framep+padPreviousInFrame)
derefPrevious(fp) ==
    IF fp \in PyAddrs THEN [ok |-> TRUE, value |-> pymem[fp]] ELSE [ok |-> FALSE, value |-> 0]

\* pystackiter.Next: the value returned (more), the new p.framep, or the panic
\* of a read out of range.
pyNext ==
    IF ~started
    THEN [panic |-> FALSE, more |-> framep # 0, framep |-> framep]
    ELSE LET prev == derefPrevious(framep)
         IN IF ~prev.ok THEN [panic |-> TRUE, more |-> FALSE, framep |-> framep]
            ELSE IF framep = prev.value
                 THEN [panic |-> FALSE, more |-> FALSE, framep |-> 0]
                 ELSE [panic |-> FALSE, more |-> prev.value # 0, framep |-> prev.value]

\* Of a trace longer than MaxPyTrace the model keeps the last MaxPyTrace entries.
PyAppend(q, x) == IF Len(q) < MaxPyTrace THEN Append(q, x) ELSE Append(Tail(q), x)

\* One iteration of makeStackTrace's loop over a pystackiter: si.Next(), then
\* si.Function() (which reads the frame, and panics when it is out of range)
\* appended to st.fns and si.ProgramCounter(), the incremented counter,
\* appended to st.pcs. The counter of the model stays at MaxPyCounter once
\* there.
WalkNext ==
    /\ wpc = "walk"
    /\ LET n == pyNext
       IN /\ started' = TRUE
          /\ IF n.panic
             THEN /\ wpc' = "panicked"
                  /\ UNCHANGED <<framep, pyfns, pypcs, counter>>
             ELSE /\ framep' = n.framep
                  /\ IF ~n.more
                     THEN /\ wpc' = "done"
                          /\ UNCHANGED <<pyfns, pypcs, counter>>
                     ELSE IF n.framep \notin PyAddrs
                     THEN /\ wpc' = "panicked"
                          /\ UNCHANGED <<pyfns, pypcs, counter>>
                     ELSE /\ wpc' = "walk"
                          /\ pyfns' = PyAppend(pyfns, n.framep)
                          /\ counter' = IF counter < MaxPyCounter THEN counter + 1 ELSE counter
                          /\ pypcs' = PyAppend(pypcs, counter')
    /\ UNCHANGED <<bld, bufVars, goVars, allCpuVars, samplerVars, memVars, profVars, pymem, wstart>>

\* profilingListener.Before of the CPU profiler on a Python guest, up to the
\* walk: python.Stackiter reads the current frame (a read out of range panics
\* there, ahead of the lock), then cpuProfiler.Before locks the mutex, and, if
\* a profile is running, reads the time t, takes a trace buffer and enters
\* makeStackTrace with the mutex held.
PyBefore(readable, fp, t) ==
    /\ gpc = "run"
    /\ wpc \in {"idle", "panicked"}
    /\ mutex = "free"
    /\ Len(calls) < MaxDepth
    /\ ncalls < MaxCalls
    /\ ncalls' = ncalls + 1
    /\ IF ~readable
       THEN /\ wpc' = "panicked"
            /\ UNCHANGED <<framep, started, pyfns, pypcs, wstart, mutex, frames, traces, calls>>
       ELSE /\ framep' = fp
            /\ started' = FALSE
            /\ IF counts = Nil
               THEN /\ frames' = Append(frames, ZeroFrame)
                    /\ calls' = Append(calls, [fn |-> "guest", entry |-> t, timed |-> FALSE,
                                               kidsAll |-> 0, kidsTimed |-> 0, stopped |-> FALSE])
                    /\ wpc' = "idle"
                    /\ UNCHANGED <<pyfns, pypcs, wstart, mutex, traces>>
               ELSE /\ mutex' = "held"
                    /\ wstart' = t
                    /\ traces' = IF Len(traces) > 0 THEN Front(traces) ELSE traces
                    /\ wpc' = "walk"
                    /\ pyfns' = <<>>
                    /\ pypcs' = <<>>
                    /\ UNCHANGED <<frames, calls>>
    /\ UNCHANGED <<bld, bufVars, goVars, profVars, memVars, samplerVars, seed, counts, heap, start, host, gpc, af, clockVars,
                   threadVars, pymem, counter>>

\* The rest of cpuProfiler.Before once makeStackTrace has returned: the key is
\* hashed, the mutex is unlocked and the frame is pushed. A pyfuncall is never
\* a host function.
PyBeforeReturn ==
    /\ wpc = "done"
    /\ mutex = "held"
    /\ LET trace == [fns |-> [i \in 1 .. Len(pyfns) |-> "guest"], pcs |-> pypcs,
                     key |-> HashBytes(seed, pypcs)]
       IN /\ frames' = Append(frames, [start |-> wstart, sub |-> 0, trace |-> trace])
          /\ calls' = Append(calls, [fn |-> "guest", entry |-> wstart, timed |-> wstart # 0,
                                     kidsAll |-> 0, kidsTimed |-> 0, stopped |-> FALSE])
    /\ mutex' = "free"
    /\ wpc' = "idle"
    /\ UNCHANGED <<bld, bufVars, goVars, profVars, memVars, samplerVars, seed, counts, heap, start, traces, host, gpc, af,
                   ncalls, clockVars, threadVars, pymem, framep, started, pyfns, pypcs, counter,
                   wstart>>

\* ------------------------------------------------------------ Go unwinder
\* unwindPrintErrors, unwindSilentErrors: the flags of a best-effort walk.
UnwindFlagSets == {{}, {"unwindPrintErrors"}, {"unwindSilentErrors"}}

\* u.flags&(unwindPrintErrors|unwindSilentErrors) != 0
BestEffort(flags) == flags \cap {"unwindPrintErrors", "unwindSilentErrors"} # {}

\* The flags the stack iterator of Prepare gives to initAt.
ProfilingFlags == {}

\* Program counters of the functions of the Go binary.
GoPcs == {1, 2}

\* What the function table says of the function of a frame: Pcsp = 0
\* ("external"), FuncFlagTopFrame, FuncFlagSPWrite, or none of these.
FuncKinds == {"normal", "external", "top", "spwrite"}

\* funcspdelta + goarchPtrSize in words: how far fp is above sp. A corrupt
\* table gives 0.
FrameSizes == {0, 1}

\* No unwinder has been initialised.
NoUnwinder == u = [flags |-> {}, by |-> "none", pc |-> 0, sp |-> 0, fp |-> 0, lr |-> 0,
             panic |-> "none", innermost |-> FALSE]

\* unwinder.finishInternal
finishInternal(w) == [w EXCEPT !.pc = 0]

\* unwinder.resolveInternal(innermost) on the frame of w, whose function is of
\* kind k with frame size size; retpc is the return PC on the stack.
resolveInternal(w, innermost, k, size, retpc) ==
    IF k = "external" THEN finishInternal(w)
    ELSE LET fp == IF w.fp = 0 THEN w.sp + size ELSE w.fp
             f == [w EXCEPT !.fp = fp, !.innermost = innermost]
         IN IF k = "top" THEN [f EXCEPT !.lr = 0]
            ELSE IF k = "spwrite"
            THEN IF BestEffort(w.flags) THEN [f EXCEPT !.lr = 0]
                 ELSE IF ~innermost
                 THEN [f EXCEPT !.panic = "traceback: unexpected SPWRITE function"]
                 ELSE f
            ELSE IF f.lr = 0 THEN [f EXCEPT !.lr = retpc] ELSE f

\* unwinder.initAt(pc0, sp0, 0, gp, flags), asked by who.
initAt(who, flags, pc0, sp0, k, size, retpc) ==
    /\ u.pc = 0 \/ u.panic # "none"
    /\ sp0 + size <= MaxGoSp
    /\ u' = resolveInternal([flags |-> flags, by |-> who, pc |-> pc0, sp |-> sp0, fp |-> 0,
                             lr |-> 0, panic |-> "none", innermost |-> TRUE],
                            TRUE, k, size, retpc)
    /\ UNCHANGED <<bld, bufVars, allCpuVars, samplerVars, memVars, profVars, pyVars, symVars, dataVars>>

\* The stack iterator Prepare installs for a Go module: initAt with flags 0.
goStackIterator(pc0, sp0, k, size, retpc) ==
    initAt("profiling", ProfilingFlags, pc0, sp0, k, size, retpc)

\* unwinder.next; known tells whether FindFunc(frame.lr) is valid, k, size and
\* retpc describe the caller's frame.
unwinderNext(known, k, size, retpc) ==
    /\ u.pc # 0
    /\ u.panic = "none"
    /\ u.fp + size <= MaxGoSp
    /\ u' = IF u.lr = 0 THEN finishInternal(u)
            ELSE IF ~known
            THEN IF ~BestEffort(u.flags)
                 THEN [u EXCEPT !.panic = "unknown caller pc"]
                 ELSE finishInternal([u EXCEPT !.lr = 0])
            ELSE IF u.pc = u.lr /\ u.sp = u.fp
            THEN [u EXCEPT !.panic = "traceback stuck"]
            ELSE resolveInternal([u EXCEPT !.pc = u.lr, !.lr = 0, !.sp = u.fp, !.fp = 0],
                                 FALSE, k, size, retpc)
    /\ UNCHANGED <<bld, bufVars, allCpuVars, samplerVars, memVars, profVars, pyVars, symVars, dataVars>>

\* ---------------------------------------------------------- Go symbolizer
\* The FuncID values the symbolizer tells apart.
FuncIDs == {"FuncIDNormal", "FuncIDWrapper", "FuncID_gopanic", "FuncID_sigpanic",
            "FuncID_panicwrap"}

\* The logical frames of one physical frame, innermost first, as the inline
\* unwinder yields them: the FuncID of each.
InlineChains == UNION {[1 .. n -> FuncIDs] : n \in 1 .. MaxInline}

\* Captured Go stacks: physical frames, innermost first.
GoStacks == UNION {[1 .. n -> InlineChains] : n \in 1 .. MaxGoFrames}

\* elideWrapperCalling(id)
elideWrapperCalling(id) ==
    ~(id = "FuncID_gopanic" \/ id = "FuncID_sigpanic" \/ id = "FuncID_panicwrap")

RECURSIVE LocationsFrom(_, _, _, _)
\* The loop of pclntab.Locations from logical frame j of physical frame i on,
\* calleeFuncID being callee: the locations appended, each named after its
\* frame.
LocationsFrom(i, chain, j, callee) ==
    IF j > Len(chain) THEN <<>>
    ELSE IF chain[j] = "FuncIDWrapper" /\ elideWrapperCalling(callee)
         THEN LocationsFrom(i, chain, j + 1, callee)
         ELSE <<[frame |-> i, inl |-> j, funcID |-> chain[j]]>> \o
              LocationsFrom(i, chain, j + 1, chain[j])

\* The reversal at the end of Locations.
Reverse(q) == [k \in 1 .. Len(q) |-> q[Len(q) + 1 - k]]

\* pclntab.Locations(gofunc, pc) for physical frame i: calleeFuncID starts at
\* its zero value, FuncIDNormal.
pclntabLocations(i, chain) == Reverse(LocationsFrom(i, chain, 1, "FuncIDNormal"))

\* No stack has been captured.
NoSymbolization == gostack = <<>> /\ gopos = 0 /\ symb = <<>>

\* A stack is captured for a sample.
CaptureStack(st) ==
    /\ gopos = Len(gostack)
    /\ gostack' = st
    /\ gopos' = 0
    /\ symb' = <<>>
    /\ UNCHANGED <<bld, bufVars, allCpuVars, samplerVars, memVars, profVars, pyVars, u, dataVars>>

\* Building the profile symbolizes the next frame of the stack.
SymbolizeFrame ==
    /\ gopos < Len(gostack)
    /\ gopos' = gopos + 1
    /\ symb' = Append(symb, pclntabLocations(gopos + 1, gostack[gopos + 1]))
    /\ UNCHANGED <<bld, bufVars, allCpuVars, samplerVars, memVars, profVars, pyVars, u, dataVars, gostack>>

\* ---------------------------------------------------------- data iterator
\* Bytes of the segment count at the head of the section (a uvarint below 128).
CountLen == 1

\* Bytes of a mode 0 segment ahead of its raw bytes: mode, i32.const, a one-byte
\* virtual address, end of expression, a one-byte length.
SegHeaderLen == 5

\* Data sections: a declared number of segments, and the raw lengths of the
\* well-formed segments the bytes hold.
Sections ==
    [n : 0 .. MaxSegs,
     segs : UNION {[1 .. k -> 1 .. MaxSegLen] : k \in 0 .. MaxSegs}]

\* len(b) of the section sec.
SectionLen(sec) ==
    CountLen + SumOver([k \in DOMAIN sec.segs |-> SegHeaderLen + sec.segs[k]], DOMAIN sec.segs)

\* newDataIterator(b): idx counts the segments the iterator has read, so that
\* d.b is the bytes from segment idx + 1 on.
newDataIterator(sec) == [n |-> sec.n, idx |-> 0, offset |-> CountLen]

\* No SkipToDataOffset call has been made.
NoSkip == [pc |-> "idle", offset |-> 0, from |-> 0, prev |-> -1, bytes |-> 0, turns |-> 0]

\* An iterator over an empty section.
NoData ==
    /\ dsec = [n |-> 0, segs |-> <<>>]
    /\ dit = newDataIterator([n |-> 0, segs |-> <<>>])
    /\ skip = NoSkip

\* An iterator is made for the data section sec.
NewDataIterator(sec) ==
    /\ skip.pc # "loop"
    /\ dsec' = sec
    /\ dit' = newDataIterator(sec)
    /\ skip' = NoSkip
    /\ UNCHANGED <<bld, bufVars, allCpuVars, samplerVars, memVars, profVars, pyVars, u, symVars, find>>

\* The first test of SkipToDataOffset taken out: no offset counts as passed.
AlreadyPassedNever(d, offset) == FALSE

\* offset < d.offset
AlreadyPassed(d, offset) == offset < d.offset

\* offset >= d.offset+len(d.b)
PastSection(d, offset) == offset >= SectionLen(dsec)

\* SkipToDataOffset(offset) up to its loop: the two tests, which panic. prev is
\* the highest offset a call on this iterator has returned bytes for.
SkipToDataOffset(offset) ==
    /\ skip.pc # "loop"
    /\ LET served == IF skip.pc = "returned" /\ skip.bytes > 0 /\ skip.offset > skip.prev
                     THEN skip.offset ELSE skip.prev
           call == [pc |-> "loop", offset |-> offset, from |-> dit.offset, prev |-> served,
                    bytes |-> 0, turns |-> 0]
       IN skip' = IF AlreadyPassed(dit, offset) \/ PastSection(dit, offset)
                  THEN [call EXCEPT !.pc = "panicked"]
                  ELSE call
    /\ UNCHANGED <<bld, bufVars, allCpuVars, samplerVars, memVars, profVars, pyVars, u, symVars, dsec, dit, find>>

\* One turn of the loop of SkipToDataOffset: d.Next(), which reads a whole
\* segment (nothing when d.n is 0, and panics on an index out of range when no
\* byte is left), then the return of the bytes from the offset to the end of
\* the segment, a panic of the slicing when the offset is ahead of them, or
\* another turn (turns is the parity of the turns continued).
SkipLoop ==
    /\ skip.pc = "loop"
    /\ IF ~(dit.offset <= skip.offset)
       THEN /\ skip' = [skip EXCEPT !.pc = "returned", !.bytes = 0]
            /\ UNCHANGED dit
       ELSE IF dit.n = 0
       THEN /\ skip' = IF dit.offset < skip.offset THEN [skip EXCEPT !.turns = 1 - @]
                       ELSE [skip EXCEPT !.pc = "returned", !.bytes = 0]
            /\ UNCHANGED dit
       ELSE IF dit.idx = Len(dsec.segs)
       THEN /\ skip' = [skip EXCEPT !.pc = "panicked"]
            /\ UNCHANGED dit
       ELSE LET seg == dsec.segs[dit.idx + 1]
                d == [n |-> dit.n - 1, idx |-> dit.idx + 1,
                      offset |-> dit.offset + SegHeaderLen + seg]
                o == seg + skip.offset - d.offset
            IN /\ dit' = d
               /\ skip' = IF d.offset < skip.offset THEN [skip EXCEPT !.turns = 1 - @]
                           ELSE IF o < 0 THEN [skip EXCEPT !.pc = "panicked"]
                           ELSE [skip EXCEPT !.pc = "returned", !.bytes = seg - o]
    /\ UNCHANGED <<bld, bufVars, allCpuVars, samplerVars, memVars, profVars, pyVars, u, symVars, dsec, find>>

\* ------------------------------------------------- search of the moduledata
\* len(start): the pclntab address and the funcnametab address, 8 bytes each.
NeedleLen == 16

\* Bytes of an address.
AddrLen == 8

\* Offset of the cutab address from the start of the moduledata.
CutabOff == 32

\* Offset of the filetab address from the start of the moduledata.
FiletabOff == 56

\* Lengths of the data sections searched, and the bytes of the wasm binary that
\* follow the section in the slice's backing array (cap(b) - len(b)).
DataLens == {0, 40, 64, 88}
TrailingLens == {0, 8}

\* Positions of b where the bytes may equal the start needle, the cutab address
\* and the filetab address.
StartPositions == {8, 24}
CutabPositions == {31, 40, 47, 56}
FiletabPositions == {55, 64, 71, 80}

\* The data sections searched, by what the search reads of them: their length,
\* their capacity, and the positions at which each of the three byte strings is
\* found. Strings that overlap by more than a byte are not found together.
SearchInputs ==
    {[len |-> l, cap |-> l + t, start |-> st, cutab |-> cu, filetab |-> fi] :
        l \in DataLens, t \in TrailingLens, st \in SUBSET StartPositions,
        cu \in SUBSET CutabPositions, fi \in SUBSET FiletabPositions}

WellFormedInput(b) ==
    /\ \A p \in b.start : p + NeedleLen <= b.len
    /\ \A p \in b.cutab \cup b.filetab : p + AddrLen <= b.cap
    /\ ~(31 \in b.cutab /\ 24 \in b.start)
    /\ ~(55 \in b.filetab /\ 56 \in b.cutab)

\* bytes.Index(b[begin:], start)
bytesIndex(b, begin) ==
    LET found == {p \in b.start : p >= begin}
    IN IF found = {} THEN -1
       ELSE (CHOOSE p \in found : \A q \in found : p <= q) - begin

\* b[i:i+8] is a valid slice expression.
SliceInRange(b, i) == 0 <= i /\ i + AddrLen <= b.cap

\* No search has been made.
NoSearch ==
    find = [pc |-> "idle", b |-> [len |-> 0, cap |-> 0, start |-> {}, cutab |-> {},
                                  filetab |-> {}],
            begin |-> 0, turns |-> 0, offset |-> 0, err |-> "none"]

\* preparePclntabSymbolizer up to the loop of findStartOfModuleData, for the one
\* module a process prepares: the data section and the pclntab header are
\* looked up, and the search of the section b starts at 0.
preparePclntabSymbolizer(hasData, headerValid, b) ==
    /\ find.pc = "idle"
    /\ WellFormedInput(b)
    /\ find' = IF ~hasData
               THEN [find EXCEPT !.pc = "failed",
                                 !.err = "no data section in the wasm binary"]
               ELSE IF ~headerValid
               THEN [find EXCEPT !.pc = "failed",
                                 !.err = "could not find pclnheader in data section"]
               ELSE [find EXCEPT !.pc = "loop", !.b = b]
    /\ UNCHANGED <<bld, bufVars, allCpuVars, samplerVars, memVars, profVars, pyVars, u, symVars, dsec, dit, skip>>

\* One turn of the loop of findStartOfModuleData, or its end. startIndex is
\* never below -1, so the test that returns -1 is never taken; the two
\* addresses are read at startIndex+32 and startIndex+56 of b, not of
\* b[begin:]; and begin is set to startIndex+1. turns is the parity of the
\* number of turns the loop has taken.
findStartOfModuleData ==
    /\ find.pc = "loop"
    /\ LET b == find.b
           startIndex == bytesIndex(b, find.begin)
           i == startIndex + CutabOff
           j == startIndex + FiletabOff
       IN find' =
            IF ~(find.begin < b.len)
            THEN [find EXCEPT !.pc = "returned", !.offset = -1]
            ELSE IF startIndex < -1
            THEN [find EXCEPT !.pc = "returned", !.offset = -1]
            ELSE IF ~SliceInRange(b, i)
            THEN [find EXCEPT !.pc = "panicked"]
            ELSE IF i \notin b.cutab
            THEN [find EXCEPT !.begin = startIndex + 1, !.turns = 1 - @]
            ELSE IF ~SliceInRange(b, j)
            THEN [find EXCEPT !.pc = "panicked"]
            ELSE IF j \notin b.filetab
            THEN [find EXCEPT !.begin = startIndex + 1, !.turns = 1 - @]
            ELSE [find EXCEPT !.pc = "returned", !.offset = find.begin + startIndex]
    /\ UNCHANGED <<bld, bufVars, allCpuVars, samplerVars, memVars, profVars, pyVars, u, symVars, dsec, dit, skip>>

\* The rest of moduledataAddrFromData and of preparePclntabSymbolizer, once the
\* search has returned: offset -1 gives address 0, any other offset the
\* virtual address vaddr that SkipToDataOffset finds for it, and address 0 is
\* the error.
moduledataAddrFromData(vaddr) ==
    /\ find.pc = "returned"
    /\ LET mdaddr == IF find.offset = -1 THEN 0 ELSE vaddr
       IN find' = IF mdaddr = 0
                  THEN [find EXCEPT !.pc = "failed",
                                    !.err = "could not find moduledata in data section"]
                  ELSE [find EXCEPT !.pc = "ready"]
    /\ UNCHANGED <<bld, bufVars, allCpuVars, samplerVars, memVars, profVars, pyVars, u, symVars, dsec, dit, skip>>

\* Nothing of a Go guest has been looked at.
NoGo == NoUnwinder /\ NoSymbolization /\ NoData /\ NoSearch

\* newCPUProfiler, with the HostTime option as given, in a process whose
\* stackTraceHashSeed is s.
InitProfiler(hostOption, s) ==
    /\ seed = s
    /\ mutex = "free"
    /\ counts = Nil
    /\ heap = [id \in MapIds |-> EmptyMap]
    /\ start = 0
    /\ frames = <<>>
    /\ traces = <<>>
    /\ host = hostOption
    /\ calls = <<>>
    /\ gpc = "run"
    /\ af = NoAfter
    /\ ncalls = 0
    /\ wallClock = 0
    /\ tpc = [t \in Threads |-> "idle"]
    /\ tsamples = [t \in Threads |-> Nil]
    /\ tstart = [t \in Threads |-> 0]
    /\ ret = NoRet
    /\ resp = [status |-> 0, panicked |-> FALSE]

\* ------------------------------------------- trace buffers as Go slices
\* Calls outstanding at once on the profiler whose buffers are followed.
MaxTraceDepth == 2

\* The stacks the iterator yields, innermost first; a frame is a function and
\* a program counter.
TraceStacks ==
    {<<[fn |-> 1, pc |-> 1]>>,
     <<[fn |-> 2, pc |-> 2]>>,
     <<[fn |-> 2, pc |-> 2], [fn |-> 1, pc |-> 1]>>}

\* A nil slice.
NilSlice == [array |-> 0, len |-> 0]

\* cap(s)
SliceCap(arrays, s) == IF s.array = 0 THEN 0 ELSE Len(arrays[s.array])

\* The elements of s.
SliceRead(arrays, s) == IF s.array = 0 THEN <<>> ELSE SubSeq(arrays[s.array], 1, s.len)

\* The capacity append gives a slice that has to grow to hold needed elements.
GrowCap(oldCap, needed) == IF 2 * oldCap > needed THEN 2 * oldCap ELSE needed

\* append(s, v): within capacity the element is written to s's backing array,
\* beyond it the elements move to a new array.
sliceAppend(arrays, s, v) ==
    IF s.len < SliceCap(arrays, s)
    THEN [arrays |-> [arrays EXCEPT ![s.array][s.len + 1] = v],
          slice |-> [s EXCEPT !.len = @ + 1]]
    ELSE LET newCap == GrowCap(SliceCap(arrays, s), s.len + 1)
             elems == SliceRead(arrays, s) \o <<v>>
         IN [arrays |-> Append(arrays, [i \in 1 .. newCap |->
                                           IF i <= Len(elems) THEN elems[i] ELSE 0]),
             slice |-> [array |-> Len(arrays) + 1, len |-> s.len + 1]]

RECURSIVE sliceAppendAll(_, _, _)
sliceAppendAll(arrays, s, vals) ==
    IF vals = <<>> THEN [arrays |-> arrays, slice |-> s]
    ELSE LET r == sliceAppend(arrays, s, Head(vals))
         IN sliceAppendAll(r.arrays, r.slice, Tail(vals))

\* stackTrace{} with its slices nil.
ZeroSliceTrace == [fns |-> NilSlice, pcs |-> NilSlice, key |-> 0]

\* makeStackTrace(st, si) on slices: st.fns[:0] and st.pcs[:0] keep their
\* backing arrays, the frames of si are appended, the key is the seeded hash of
\* the PCs.
makeSliceTrace(arrays, st, si) ==
    LET f == sliceAppendAll(arrays, [st.fns EXCEPT !.len = 0], [i \in 1 .. Len(si) |-> si[i].fn])
        q == sliceAppendAll(f.arrays, [st.pcs EXCEPT !.len = 0], [i \in 1 .. Len(si) |-> si[i].pc])
    IN [arrays |-> q.arrays,
        trace |-> [fns |-> f.slice, pcs |-> q.slice,
                   key |-> HashBytes(seed, SliceRead(q.arrays, q.slice))]]

\* slices.Clone(s): nil for a nil slice, else the elements in a new array.
slicesClone(arrays, s) ==
    IF s.array = 0 THEN [arrays |-> arrays, slice |-> s]
    ELSE [arrays |-> Append(arrays, SliceRead(arrays, s)),
          slice |-> [array |-> Len(arrays) + 1, len |-> s.len]]

\* clone that returns the trace itself, slices and all.
cloneSlicesShared(arrays, st) == [arrays |-> arrays, trace |-> st]

\* stackTrace.clone on slices.
cloneSlices(arrays, st) ==
    LET f == slicesClone(arrays, st.fns)
        q == slicesClone(f.arrays, st.pcs)
    IN [arrays |-> q.arrays, trace |-> [fns |-> f.slice, pcs |-> q.slice, key |-> st.key]]

\* The frames a trace holds, read through its slices.
FramesOf(arrays, st) == [fns |-> SliceRead(arrays, st.fns), pcs |-> SliceRead(arrays, st.pcs)]

\* stackCounterMap.lookup on slices, as a step: the first observation of a key
\* stores a clone of the trace.
lookupSlices(arrays, st) ==
    IF st.key \in DOMAIN store
    THEN /\ backing' = arrays
         /\ UNCHANGED <<store, kept>>
    ELSE LET c == cloneSlices(arrays, st)
         IN /\ backing' = c.arrays
            /\ store' = store @@ (st.key :> c.trace)
            /\ kept' = kept @@ (st.key :> FramesOf(arrays, st))

\* cpuProfiler.Before of a running profile: the trace buffer comes off p.traces
\* if there is one.
SliceBefore(si) ==
    /\ owner = "cpu"
    /\ Len(held) < MaxTraceDepth
    /\ LET trace == IF spare # <<>> THEN Last(spare) ELSE ZeroSliceTrace
           m == makeSliceTrace(backing, trace, si)
       IN /\ spare' = IF spare # <<>> THEN Front(spare) ELSE spare
          /\ backing' = m.arrays
          /\ held' = Append(held, m.trace)
    /\ UNCHANGED <<bld, allCpuVars, samplerVars, memVars, profVars, pyVars, goVars, owner, field, store, kept>>

\* cpuProfiler.After of a running profile: the frame's trace is observed, then
\* goes back on p.traces.
SliceAfter ==
    /\ owner = "cpu"
    /\ held # <<>>
    /\ lookupSlices(backing, Last(held))
    /\ spare' = Append(spare, Last(held))
    /\ held' = Front(held)
    /\ UNCHANGED <<bld, allCpuVars, samplerVars, memVars, profVars, pyVars, goVars, owner, field>>

\* mallocProfiler.Before: the listener's stack field is its own buffer.
FieldBefore(si) ==
    /\ owner = "mem"
    /\ Len(held) < MaxTraceDepth
    /\ LET m == makeSliceTrace(backing, field, si)
       IN /\ backing' = m.arrays
          /\ field' = m.trace
          /\ held' = Append(held, m.trace)
    /\ UNCHANGED <<bld, allCpuVars, samplerVars, memVars, profVars, pyVars, goVars, owner, spare, store, kept>>

\* mallocProfiler.After without error: observeAlloc looks the field's trace up.
FieldAfter ==
    /\ owner = "mem"
    /\ held # <<>>
    /\ lookupSlices(backing, field)
    /\ held' = Front(held)
    /\ UNCHANGED <<bld, allCpuVars, samplerVars, memVars, profVars, pyVars, goVars, owner, spare, field>>

\* No array allocated, no trace captured, nothing stored.
NewBuffers(o) ==
    /\ backing = <<>>
    /\ owner = o
    /\ spare = <<>>
    /\ held = <<>>
    /\ field = ZeroSliceTrace
    /\ store = EmptyMap
    /\ kept = EmptyMap

NoBuffers == NewBuffers("cpu")

\* ----------------------------------------------------------- buildProfile
\* Samples of a profile built.
MaxBuildSamples == 3

\* Frames of the stacks sampled, by what makeLocationKey reads of them: two
\* program counters of one function, and another function of the same name.
FrameAtPc1 == [module |-> "m", index |-> 0, name |-> "f", pc |-> 1]
FrameAtPc2 == [module |-> "m", index |-> 0, name |-> "f", pc |-> 2]
FrameOther == [module |-> "m", index |-> 1, name |-> "f", pc |-> 1]

\* Stacks of one and two frames that share frames, one with a frame twice.
BuildStacks ==
    {<<FrameAtPc1>>, <<FrameAtPc2>>, <<FrameAtPc1, FrameAtPc2>>,
     <<FrameOther, FrameAtPc1>>, <<FrameAtPc1, FrameAtPc1>>}

\* The samples map handed to buildProfile: distinct stacks, each with a count
\* that is zero or not.
BuildInputs ==
    {m \in SUBSET [stack : BuildStacks, zero : BOOLEAN] :
        /\ Cardinality(m) <= MaxBuildSamples
        /\ \A x, y \in m : x.stack = y.stack => x = y}

\* makeLocationKey without the program counter.
makeLocationKeyNoPc(fr) == [module |-> fr.module, index |-> fr.index, name |-> fr.name, pc |-> 0]

\* makeLocationKey(def, pc)
makeLocationKey(fr) == [module |-> fr.module, index |-> fr.index, name |-> fr.name, pc |-> fr.pc]

\* No buildProfile call has been made.
NoBuild ==
    bld = [pc |-> "idle", samples |-> {}, ratiosOne |-> TRUE, locationID |-> 1,
           locationCache |-> EmptyMap, functionCache |-> EmptyMap,
           Sample |-> <<>>, Location |-> <<>>, Function |-> <<>>]

\* buildProfile up to its loop: the profile with no sample, locationID 1 and
\* the two caches empty.
BuildStart(samples, ratiosOne) ==
    /\ bld.pc = "idle"
    /\ bld' = [bld EXCEPT !.pc = "samples", !.samples = samples, !.ratiosOne = ratiosOne]
    /\ UNCHANGED <<allCpuVars, samplerVars, memVars, profVars, pyVars, goVars, bufVars>>

RECURSIVE BuildLocations(_, _, _)
\* The inner loop of buildProfile from frame i of the stack on: the frame's
\* Location comes from the cache, or is made by locationForCall (which makes
\* the function of its line unless the function cache has it) and is given the
\* next ID. b is the locals, location the slice filled so far.
BuildLocations(b, st, location) ==
    LET i == Len(location) + 1
    IN IF i > Len(st) THEN [b |-> b, location |-> location]
       ELSE LET key == makeLocationKey(st[i])
            IN IF key \in DOMAIN b.locationCache
               THEN BuildLocations(b, st, Append(location, b.locationCache[key].ID))
               ELSE LET name == locationForCall("noop", st[i].name, st[i].pc, FALSE).SystemName
                        funcs == IF name \in DOMAIN b.functionCache THEN b.functionCache
                                 ELSE b.functionCache @@
                                      (name :> [ID |-> Cardinality(DOMAIN b.functionCache) + 1])
                        loc == [ID |-> b.locationID, frame |-> st[i],
                                Function |-> funcs[name].ID]
                    IN BuildLocations([b EXCEPT !.locationID = @ + 1,
                                                !.locationCache = @ @@ (key :> loc),
                                                !.functionCache = funcs],
                                      st, Append(location, loc.ID))

\* One turn of the loop over the samples, which a Go map yields in any order.
BuildSample ==
    /\ bld.pc = "samples"
    /\ \E sample \in bld.samples :
          LET r == BuildLocations(bld, sample.stack, <<>>)
          IN bld' = [r.b EXCEPT !.samples = @ \ {sample},
                                !.Sample = Append(@, [Location |-> r.location,
                                                      stack |-> sample.stack,
                                                      zero |-> sample.zero])]
    /\ UNCHANGED <<allCpuVars, samplerVars, memVars, profVars, pyVars, goVars, bufVars>>

\* The rest of buildProfile: the tables are filled from the caches, each entry
\* at its ID - 1, and ScaleN drops the samples whose values are all zero unless
\* every ratio is 1.
BuildFinish ==
    /\ bld.pc = "samples"
    /\ bld.samples = {}
    /\ LET locs == bld.locationCache
           fns == bld.functionCache
           scaled == IF bld.ratiosOne THEN bld.Sample
                     ELSE SelectSeq(bld.Sample, LAMBDA x : ~x.zero)
       IN bld' = [bld EXCEPT
                    !.pc = "done",
                    !.Location = [n \in 1 .. Cardinality(DOMAIN locs) |->
                                     locs[CHOOSE k \in DOMAIN locs : locs[k].ID = n]],
                    !.Function = [n \in 1 .. Cardinality(DOMAIN fns) |->
                                     CHOOSE k \in DOMAIN fns : fns[k].ID = n],
                    !.Sample = scaled]
    /\ UNCHANGED <<allCpuVars, samplerVars, memVars, profVars, pyVars, goVars, bufVars>>

\* ---------------------------------------------------------------- SpecCPU
\* The guest runs nested calls under a time function of any values while one
\* host thread starts and stops the profile.
InitCPU == (\E s \in HashSeeds : InitProfiler(FALSE, s)) /\ NewSampledListener(<<1, 1>>) /\ NewMemoryProfiler /\ ProfilingReady /\ NoWalk /\ NoGo /\ NoBuffers /\ NoBuild

NextCPU ==
    \/ \E f \in Funcs, t \in TimeVals : Before(f, t)
    \/ \E t \in TimeVals : After(t)
    \/ \E t \in TimeVals : Abort(t)
    \/ AfterObserve
    \/ ApiStart
    \/ ApiStop
    \/ \E r \in SampleRates : ApiStopReturn(r)

SpecCPU == InitCPU /\ [][NextCPU]_vars

\* -------------------------------------------------------------- SpecServe
\* Host threads and the HTTP handler start and stop the profile while the guest
\* runs calls, one at a time, under a clock that stands at one (non-zero) reading.
ServeTime == MaxTime

InitServe == (\E h \in BOOLEAN : InitProfiler(h, 1)) /\ NewSampledListener(<<1, 1>>) /\ NewMemoryProfiler /\ ProfilingReady /\ NoWalk /\ NoGo /\ NoBuffers /\ NoBuild

NextServe ==
    \/ calls = <<>> /\ \E f \in Funcs : Before(f, ServeTime)
    \/ After(ServeTime)
    \/ Abort(ServeTime)
    \/ AfterObserve
    \/ Tick
    \/ ApiStart
    \/ ApiStop
    \/ ApiStopReturn(NoSampling)
    \/ \E exceeds \in RequestOutcomes : HandlerServe(exceeds)
    \/ HandlerStop
    \/ HandlerReply(NoSampling)

SpecServe == InitServe /\ [][NextServe]_vars

\* The handler's select returns when the timer fires or the request context
\* ends, and StopProfile runs to its end once called: a waiting request does
\* call StopProfile and a StopProfile under way does return.
SpecServeFair ==
    SpecServe /\ WF_vars(HandlerStop) /\ WF_vars(HandlerReply(NoSampling))

\* ------------------------------------------------------------ SpecSampler
\* One listener made by Sample(rate, factory) receives LIFO-nested callbacks.
InitSampler ==
    /\ InitProfiler(FALSE, 1)
    /\ NewMemoryProfiler /\ ProfilingReady /\ NoWalk /\ NoGo /\ NoBuffers /\ NoBuild
    /\ \E r \in SamplerRates : NewSampledListener(r)

NextSampler ==
    \/ SampledBefore
    \/ SampledAfter
    \/ SampledAbort
    \/ DirectBefore
    \/ DirectAfter
    \/ DirectAbort

SpecSampler == InitSampler /\ [][NextSampler]_vars

\* ---------------------------------------------------------------- SpecMem
\* The guest calls allocator functions while a host thread takes snapshots.
InitMem == InitProfiler(FALSE, 1) /\ NewSampledListener(<<1, 1>>) /\ NewMemoryProfiler /\ ProfilingReady /\ NoWalk /\ NoGo /\ NoBuffers /\ NoBuild

NextMem ==
    \/ \E size \in Sizes, si \in MemStacks : MallocBefore(size, si)
    \/ \E err \in BOOLEAN, res \in Addrs : MallocAfter(err, res)
    \/ \E args \in CallocArgs, si \in MemStacks : CallocBefore(args[1], args[2], si)
    \/ \E err \in BOOLEAN, res \in Addrs : CallocAfter(err, res)
    \/ \E addr \in Addrs, size \in Sizes, si \in MemStacks : ReallocBefore(addr, size, si)
    \/ \E err \in BOOLEAN, res \in Addrs : ReallocAfter(err, res)
    \/ ReallocAlloc
    \/ \E addr \in Addrs : FreeBefore(addr)
    \/ \E err \in BOOLEAN : FreeAfter(err)
    \/ \E ok \in BOOLEAN, size \in Sizes \cup {0}, si \in MemStacks : MallocgcBefore(ok, size, si)
    \/ \E err \in BOOLEAN : MallocgcAfter(err)
    \/ TakeSnapshot

SpecMem == InitMem /\ [][NextMem]_vars

\* ---------------------------------------------------------- SpecProfiling
\* A Profiling instance: Prepare is called any number of times, and profilers
\* are asked for at any time.
InitProfiling ==
    /\ InitProfiler(FALSE, 1)
    /\ NewSampledListener(<<1, 1>>)
    /\ NewMemoryProfiler
    /\ \E l \in Languages : ProfilingFor(l)
    /\ NoWalk /\ NoGo /\ NoBuffers /\ NoBuild

NextProfiling ==
    \/ \E ok \in BOOLEAN : Prepare(ok)
    \/ NewCPUProfiler
    \/ NewMemProfiler
    \/ \E name \in DefNames : CPUNewFunctionListener(name)
    \/ \E name \in DefNames : MemoryNewFunctionListener(name)

SpecProfiling == InitProfiling /\ [][NextProfiling]_vars

\* -------------------------------------------------------------- SpecPyWalk
\* The profiler of a Python guest takes stack traces of a guest memory the
\* guest writes between the callbacks.
InitPyWalk ==
    /\ InitProfiler(FALSE, 1)
    /\ NewSampledListener(<<1, 1>>)
    /\ NewMemoryProfiler
    /\ ProfilingFor("python311")
    /\ NoWalk /\ NoGo /\ NoBuffers /\ NoBuild

NextPyWalk ==
    \/ \E a \in PyAddrs, v \in PyPointers : GuestWrite(a, v)
    \/ \E readable \in BOOLEAN, fp \in PyPointers : Stackiter(readable, fp)
    \/ WalkNext

\* makeStackTrace's loop is sequential code: its next iteration is always taken.
SpecPyWalk == InitPyWalk /\ [][NextPyWalk]_vars /\ WF_vars(WalkNext)

\* --------------------------------------------------------------- SpecPyCPU
\* The CPU profiler listens to the calls of a Python guest while a host thread
\* starts and stops the profile. The guest writes the previous field of one
\* frame, the others end the chain.
NextPyCPU ==
    \/ \E v \in PyPointers : GuestWrite(1, v)
    \/ \E readable \in BOOLEAN, fp \in PyPointers, t \in PyTimes : PyBefore(readable, fp, t)
    \/ WalkNext
    \/ PyBeforeReturn
    \/ \E t \in PyTimes : After(t)
    \/ AfterObserve
    \/ ApiStart
    \/ ApiStop
    \/ ApiStopReturn(NoSampling)

SpecPyCPU == InitPyWalk /\ [][NextPyCPU]_vars

\* -------------------------------------------------------------- SpecGoWalk
\* Stack walks of a Go guest: those the profiler's stack iterator starts, and
\* those of a caller of the unwinder that asks for a best-effort walk.
InitGoWalk ==
    /\ InitProfiler(FALSE, 1)
    /\ NewSampledListener(<<1, 1>>)
    /\ NewMemoryProfiler
    /\ ProfilingFor("golang")
    /\ NoWalk /\ NoGo /\ NoBuffers /\ NoBuild

NextGoWalk ==
    \/ \E pc0 \in GoPcs, sp0 \in 0 .. MaxGoSp, k \in FuncKinds, size \in FrameSizes,
          retpc \in GoPcs \cup {0} : goStackIterator(pc0, sp0, k, size, retpc)
    \/ \E flags \in UnwindFlagSets, pc0 \in GoPcs, sp0 \in 0 .. MaxGoSp, k \in FuncKinds,
          size \in FrameSizes, retpc \in GoPcs \cup {0} :
          initAt("unwinder", flags, pc0, sp0, k, size, retpc)
    \/ \E known \in BOOLEAN, k \in FuncKinds, size \in FrameSizes, retpc \in GoPcs \cup {0} :
          unwinderNext(known, k, size, retpc)

SpecGoWalk == InitGoWalk /\ [][NextGoWalk]_vars

\* --------------------------------------------------------------- SpecGoSym
\* Stacks of a Go guest are captured and symbolized frame by frame.
NextGoSym ==
    \/ \E st \in GoStacks : CaptureStack(st)
    \/ SymbolizeFrame

SpecGoSym == InitGoWalk /\ [][NextGoSym]_vars

\* ---------------------------------------------------------------- SpecData
\* Data iterators are made over data sections and asked for offsets.
NextData ==
    \/ \E sec \in Sections : NewDataIterator(sec)
    \/ \E offset \in 0 .. (CountLen + MaxSegs * (SegHeaderLen + MaxSegLen)) :
          SkipToDataOffset(offset)
    \/ SkipLoop

SpecData == InitGoWalk /\ [][NextData]_vars

\* The loop of SkipToDataOffset runs on the caller's thread: a call under way
\* takes its next turn.
SpecDataFair == SpecData /\ WF_vars(SkipLoop)

\* ---------------------------------------------------------------- SpecFind
\* Pclntab symbolizers are prepared from wasm binaries. The search loop and the
\* code after it run to their end once started.
VirtualAddrs == {0, 1}

NextFind ==
    \/ \E hasData, headerValid \in BOOLEAN, b \in SearchInputs :
          preparePclntabSymbolizer(hasData, headerValid, b)
    \/ findStartOfModuleData
    \/ \E vaddr \in VirtualAddrs : moduledataAddrFromData(vaddr)

SpecFind ==
    /\ InitGoWalk /\ [][NextFind]_vars
    /\ WF_vars(findStartOfModuleData)
    /\ WF_vars(\E vaddr \in VirtualAddrs : moduledataAddrFromData(vaddr))

\* --------------------------------------------------------------- SpecTrace
\* One profiler's trace buffers and counter map while calls nest: a running CPU
\* profile, or the listener of an allocator function.
InitTrace ==
    /\ \E s \in HashSeeds : InitProfiler(FALSE, s)
    /\ NewSampledListener(<<1, 1>>)
    /\ NewMemoryProfiler /\ ProfilingReady /\ NoWalk /\ NoGo /\ NoBuild
    /\ \E o \in {"cpu", "mem"} : NewBuffers(o)

NextTrace ==
    \/ \E si \in TraceStacks : SliceBefore(si)
    \/ SliceAfter
    \/ \E si \in TraceStacks : FieldBefore(si)
    \/ FieldAfter

SpecTrace == InitTrace /\ [][NextTrace]_vars

\* --------------------------------------------------------------- SpecBuild
\* One buildProfile call on any samples map.
NextBuild ==
    \/ \E samples \in BuildInputs, ratiosOne \in BOOLEAN : BuildStart(samples, ratiosOne)
    \/ BuildSample
    \/ BuildFinish

SpecBuild == InitCPU /\ [][NextBuild]_vars

\* ---------------------------------------------------------------- SpecBits
\* The bitstack of one sampled listener under pushes and pops, pops never
\* outnumbering pushes.
InitBits ==
    /\ InitProfiler(FALSE, 1)
    /\ NewMemoryProfiler /\ ProfilingReady /\ NoWalk /\ NoGo /\ NoBuffers /\ NoBuild
    /\ NewSampledListener(<<1, 2>>)

NextBits ==
    \/ \E bit \in {0, 1} : bitstackPush(bit)
    \/ bitstackPop

SpecBits == InitBits /\ [][NextBits]_vars

\* ------------------------------------------------------ properties: SpecCPU
\* The step in which cpuProfiler.After records its observation.
Recording == gpc = "observe" /\ gpc' = "run" /\ counts # Nil

AddedTotal == TotalOf(heap'[counts], af.trace.key) - TotalOf(heap[counts], af.trace.key)

AddedCount == CountOf(heap'[counts], af.trace.key) - CountOf(heap[counts], af.trace.key)

\* C1: for every call the CPU profiler records, the value added to its stack's
\* total is (time at After - time at Before) minus the durations of the calls
\* nested directly inside it, and the stack's count grows by exactly 1.
C1_SelfTimeAllChildren ==
    [][Recording => (AddedTotal = af.wall - af.kidsAll /\ AddedCount = 1)]_vars

\* What the code does guarantee for C1: the durations subtracted are those of
\* the directly nested calls that were themselves timed (entered while the
\* profiler was running, at a non-zero reading of the time function).
SelfTimeTimedChildren ==
    [][Recording => (AddedTotal = af.wall - af.kidsTimed /\ AddedCount = 1)]_vars

\* A recorded call with a nested call that was not timed and took time.
C1_Witness ==
    /\ gpc = "observe"
    /\ counts # Nil
    /\ af.kidsAll # af.kidsTimed

\* ---------------------------------------------------- properties: SpecServe
\* A step that calls StartProfile: directly, or from the HTTP handler.
StartStep == ApiStart \/ HandlerServe(FALSE)

\* A step that runs StopProfile's critical section.
StopStep == ApiStop \/ HandlerStop

\* C8: StartProfile on a running profiler returns false and changes nothing: the
\* samples, the start time and p.counts stay as they were, and the HTTP handler
\* answers with an error without going on to stop the profile.
C8_StartWhileRunning ==
    [][(counts # Nil /\ StartStep) =>
          /\ ret'.op = "start" /\ ~ret'.ok
          /\ UNCHANGED <<counts, heap, start>>
          /\ HandlerServe(FALSE) =>
                (resp'.status = StatusInternalServerError /\ tpc'["http"] = "idle")]_vars

\* The handler was refused while a profile with samples was running.
C8_Witness ==
    /\ ret = [op |-> "start", by |-> "http", ok |-> FALSE]
    /\ resp.status = StatusInternalServerError
    /\ counts # Nil
    /\ heap[counts] # EmptyMap
    /\ start # wallClock

\* C9: the profiler is restartable: StopProfile always leaves it stopped, and
\* StartProfile on a stopped profiler returns true and begins an empty profile,
\* in every round.
C9_Restartable ==
    [][/\ StopStep => counts' = Nil
       /\ (counts = Nil /\ StartStep) =>
             (ret'.ok /\ counts' # Nil /\ heap'[counts'] = EmptyMap /\ start' = wallClock)]_vars

\* A second round is recording: the handler's round is over and the profile
\* started after it holds a sample.
C9_Witness ==
    /\ resp.status = StatusOK
    /\ ret = [op |-> "start", by |-> "api", ok |-> TRUE]
    /\ counts # Nil
    /\ heap[counts] # EmptyMap

\* C10: once StopProfile has taken the map, the map is no longer p.counts and no
\* step of the guest's After/Abort (or of anyone else) changes it while the
\* profile is built from it.
C10_TakenMapIsPrivate ==
    [][\A t \in Threads :
          (tpc'[t] = "build" /\ tsamples'[t] # Nil) =>
              /\ counts' # tsamples'[t]
              /\ tpc[t] = "build" => heap'[tsamples[t]] = heap[tsamples[t]]]_vars

\* After has popped its frame and is about to enter its critical section while
\* a StopProfile holds the map it took, and a new profile has been started.
C10_Witness ==
    \E t \in Threads :
        /\ tpc[t] = "build"
        /\ tsamples[t] # Nil
        /\ heap[tsamples[t]] # EmptyMap
        /\ gpc = "observe"
        /\ counts # Nil

\* -------------------------------------------------- properties: SpecSampler
\* C2: a listener sampled with 0 < rate < 1 has forwarded ceil(N / cycle) Before
\* calls to the inner listener after N Before calls.
C2_ForwardsCeil == kind = "sampled" => inner.before = CeilDiv(nBefore, cycle)

\* C2 as the code has it: the listener forwards every cycle-th call, the first
\* one being call number cycle, so floor(N / cycle) calls after N.
C2_ForwardsFloor == kind = "sampled" => inner.before = nBefore \div cycle

\* Calls have been forwarded and N is not a multiple of the cycle.
C2_Witness ==
    /\ kind = "sampled"
    /\ inner.before >= 1
    /\ nBefore % cycle # 0
    /\ cycle > 2

\* C3: an After/Abort is forwarded exactly when the Before of the same call was:
\* at every point the inner listener's outstanding calls are the outstanding
\* calls whose Before was forwarded, and it has got as many exits as the
\* forwarded calls that have ended.
C3_ExitsFollowEntries ==
    kind = "sampled" =>
        /\ inner.open = Cardinality({i \in 1 .. Len(open) : open[i]})
        /\ inner.after + inner.abort = inner.before - inner.open

\* Nested calls, some forwarded and some not, after forwarded and unforwarded
\* calls have returned.
C3_Witness ==
    /\ kind = "sampled"
    /\ Len(open) >= 2
    /\ \E i, j \in 1 .. Len(open) : open[i] /\ ~open[j]
    /\ inner.after >= 1
    /\ inner.abort >= 1
    /\ nBefore - Len(open) > inner.after + inner.abort

\* C4: the bit-stack holds one entry per Before whose After/Abort has not come
\* yet, and is empty when the outermost call has returned.
C4_StackSizeIsDepth ==
    kind = "sampled" =>
        /\ stack.size = Len(open)
        /\ \A i \in 1 .. Len(open) : open[i] <=> ((i - 1) % WordBits) \in stack.bits[((i - 1) \div WordBits) + 1]

\* The outermost call has returned after nested calls were made.
C4_Witness ==
    /\ kind = "sampled"
    /\ stack.size = 0
    /\ nBefore >= 3
    /\ inner.before >= 1
    /\ stack.bits # <<ZeroWord>>

\* ------------------------------------------------------ properties: SpecMem
\* Allocations observed on the stack with this key whose free has not been
\* observed.
LiveOn(key) ==
    SumOver([a \in Addrs |-> Cardinality({i \in 1 .. Len(live[a]) : live[a][i] = key})], Addrs)

\* C5: in every snapshot the in-use object count of each stack is the number of
\* allocations observed on it minus the number of those whose free has been
\* observed, and is never negative.
C5_InUseIsAllocsMinusFrees ==
    \A key \in DOMAIN snapshot :
        /\ snapshot[key].value[3] = LiveOn(key)
        /\ snapshot[key].value[3] >= 0

ReallocDone == mpc = "realloc" /\ mpc' = "run"

C11_SelfTimeNotNegative == [][Recording => AddedTotal >= 0]_vars

\* StopProfile returns to thread t with the samples it took.
StopReturns(t) == tpc[t] = "build" /\ tpc'[t] = "idle" /\ tsamples[t] # Nil

\* C12, outermost read as the root of the call stack (the last frame of the
\* trace): without host time the returned profile has no sample whose outermost
\* frame is a host function, and has every other recorded sample.
C12_NoHostOutermost ==
    [][\A t \in Threads : (StopReturns(t) /\ ~host) =>
          \A k \in DOMAIN heap[tsamples[t]] :
              k \in DOMAIN ret'.profile.samples
                  <=> ~IsHostFunction(Last(heap[tsamples[t]][k].stack.fns))]_vars

\* C12 as the code has it: without host time the returned profile has no sample
\* of a call to a host function (the first frame of the trace, the function the
\* call entered), and has every other recorded sample with its stack and values.
C12_NoHostCalls ==
    [][\A t \in Threads : (StopReturns(t) /\ ~host) =>
          \A k \in DOMAIN heap[tsamples[t]] :
              LET rec == heap[tsamples[t]][k]
              IN IF IsHostFunction(rec.stack.fns[1])
                 THEN k \notin DOMAIN ret'.profile.samples
                 ELSE /\ k \in DOMAIN ret'.profile.samples
                      /\ ret'.profile.samples[k].stack = rec.stack
                      /\ ret'.profile.samples[k].value[2] = rec.value[2]]_vars

\* StopProfile has returned a profile from which samples of host calls were
\* dropped and in which other samples were kept.
C12_Witness ==
    /\ ret.op = "stop"
    /\ ret.found
    /\ ~host
    /\ ret.dropped # {}
    /\ DOMAIN ret.profile.samples # {}

\* The PCs of the guest's call stack when its i-th outstanding call was entered,
\* in the order the stack iterator yields them.
PcsOfCall(i) == [j \in 1 .. i |-> PcOf(calls[i + 1 - j].fn)]

\* C13: a stack's key depends on its PC sequence only (within the process:
\* under its hash seed). Every trace captured at a Before, in a fresh or a
\* reused buffer, holds the PCs of the call stack and the key of those PCs;
\* every counter is filed under the key of the PCs of its stack, so stacks with
\* the same PCs share one counter.
C13_KeyOfPcs ==
    /\ \A i \in 1 .. Len(frames) :
          frames[i].start # 0 =>
              /\ frames[i].trace.pcs = PcsOfCall(i)
              /\ frames[i].trace.key = HashBytes(seed, PcsOfCall(i))
    /\ \A id \in MapIds : \A k \in DOMAIN heap[id] :
          /\ heap[id][k].stack.key = k
          /\ k = HashBytes(seed, heap[id][k].stack.pcs)
    /\ gpc = "observe" => af.trace.key = HashBytes(seed, af.trace.pcs)

\* Two calls with the same stack, the second captured in the buffer the first
\* gave back, have been counted in one counter.
C13_Witness ==
    /\ counts # Nil
    /\ traces # <<>>
    /\ ncalls >= 2
    /\ \E k \in DOMAIN heap[counts] : heap[counts][k].value[1] >= 2

\* ------------------------------------------------- properties: SpecMem (2)
\* C14: the counter of every record of the in-use map is in the alloc map under
\* the key of its stack, and a snapshot has a sample under that key.
C14_InUseCounterReachable ==
    \A a \in DOMAIN inuse :
        /\ inuse[a].counter \in DOMAIN alloc
        /\ alloc[inuse[a].counter].stack.key = inuse[a].counter
        /\ inuse[a].counter \in DOMAIN snapshot
        /\ snapshot[inuse[a].counter].value[3] >= 1

\* A snapshot of records at two addresses, allocated from two stacks.
C14_Witness ==
    /\ snap.taken
    /\ snap.samples = snapshot
    /\ Cardinality(DOMAIN inuse) = 2
    /\ \E a, b \in DOMAIN inuse : inuse[a].counter # inuse[b].counter

\* C15: the count and the total of the alloc counter of every stack never
\* decrease, and no counter is ever removed: not by observeFree, by realloc or
\* by a snapshot.
C15_AllocCountersMonotonic ==
    [][\A k \in DOMAIN alloc :
          /\ k \in DOMAIN alloc'
          /\ alloc'[k].value[1] >= alloc[k].value[1]
          /\ alloc'[k].value[2] >= alloc[k].value[2]]_vars

\* A free has removed the record of an allocation, after a snapshot.
C15_Witness ==
    /\ mlast = [fn |-> "free", ok |-> TRUE, freed |-> TRUE]
    /\ snap.taken
    /\ alloc # EmptyMap
    /\ inuse = EmptyMap

\* ---------------------------------------------------- properties: SpecProfiling
AsksProfiler == NewCPUProfiler \/ NewMemProfiler

\* C16: CPUProfiler and MemoryProfiler return an error and no profiler when
\* Prepare has not been called on the instance, and return a profiler once a
\* Prepare call on it has returned without error.
C16_ProfilerAfterPrepare ==
    [][AsksProfiler =>
          /\ pret'.err = ~pret'.profiler
          /\ prepared => pret'.profiler
          /\ (~prepared /\ ~prepareCalled) => pret'.err]_vars

\* C17: in a module that is neither Go nor Python, Prepare succeeds when the
\* DWARF is missing or cannot be parsed, profilers can then be created, and the
\* null symbolizer names frames by the function's own name.
C17_MissingDwarfNotFatal ==
    [][/\ (lang = "unknown" /\ Prepare(FALSE)) => (~pret'.err /\ symbols' = "noop")
       /\ (lang = "unknown" /\ prepared /\ AsksProfiler) => pret'.profiler
       /\ \A fn \in Funcs, pc \in {0, 1}, known \in BOOLEAN :
             locationForCall("noop", fn, pc, known) = [SystemName |-> fn, Name |-> fn]]_vars

\* ------------------------------------------------ properties: SpecServe (2)
\* The seconds the request asks for are more than the seconds left before the
\* deadline.
AsksBeyondDeadline(sec, dl) == dl.ok /\ Greater64(RequestedSeconds(sec), Word(dl.left))

\* What the handler's test comes to for the requests that ask for more than the
\* deadline leaves.
BeyondDeadlineOutcomes ==
    {Exceeds(sec, dl) : <<sec, dl>> \in
        {p \in SecondsForms \X Deadlines : AsksBeyondDeadline(p[1], p[2])}}

\* C18: a request whose requested duration exceeds the time left before the
\* request's deadline is answered 400 and does not start the profiler.
C18_BeyondDeadlineRefused ==
    [][\A exceeds \in BeyondDeadlineOutcomes :
          HandlerServe(exceeds) =>
              /\ resp'.status = StatusBadRequest
              /\ UNCHANGED <<counts, heap, start, tpc>>]_vars

\* C19: every HTTP request that started the profiler ends up, when the timer
\* fires or the request context ends, stopping the profiler and answering with
\* the profile.
C19_StartedRequestServesProfile ==
    (tpc["http"] = "waiting") ~>
        (tpc["http"] = "idle" /\ resp.status = StatusOK /\ ~resp.panicked)

\* A request that started the profiler does finish.
StartedRequestFinishes == (tpc["http"] = "waiting") ~> (tpc["http"] = "idle")

\* C20: whatever the guest memory holds, a Python stack walk that has begun
\* comes to an end.
C20_PyWalkTerminates == (wpc = "walk") ~> (wpc # "walk")

\* C21: once a stack walk has ended on a guest memory read out of range, the
\* profiler is as ready for the later callbacks as before the walk: its mutex
\* is free, and no counter holds the partial trace.
C21_OutOfRangeReadEndsOnlyTheWalk ==
    wpc = "panicked" =>
        /\ mutex = "free"
        /\ \A id \in MapIds : \A k \in DOMAIN heap[id] :
              pypcs = <<>> \/ heap[id][k].stack.pcs # pypcs

\* The walk errors: unknown caller PC, SPWRITE function above the innermost
\* frame, stuck trace.
WalkErrors ==
    {"unknown caller pc", "traceback: unexpected SPWRITE function", "traceback stuck"}

\* C22: the walks made while profiling are best-effort walks, and in a
\* best-effort walk no walk error is fatal (it ends the walk).
C22_WalkErrorsEndBestEffortWalk ==
    /\ u.by = "profiling" => BestEffort(u.flags)
    /\ BestEffort(u.flags) => u.panic \notin WalkErrors

\* In a best-effort walk an unknown caller PC and an SPWRITE function are not
\* fatal.
BestEffortTolerates ==
    BestEffort(u.flags) =>
        u.panic \notin {"unknown caller pc", "traceback: unexpected SPWRITE function"}

\* The FuncID of the function logical frame j of physical frame i called: that
\* of the frame below it in the stack, FuncIDNormal for the innermost frame.
CalleeOf(i, j) ==
    IF j > 1 THEN gostack[i][j - 1]
    ELSE IF i > 1 THEN gostack[i - 1][Len(gostack[i - 1])]
    ELSE "FuncIDNormal"

\* Logical frame j of physical frame i is among the locations of the frame.
KeptFrame(i, j) == \E k \in 1 .. Len(symb[i]) : symb[i][k].inl = j

PanicFamily == {"FuncID_gopanic", "FuncID_sigpanic", "FuncID_panicwrap"}

\* C23: in a symbolized stack a wrapper frame is left out exactly when the
\* function it called is none of gopanic, sigpanic, panicwrap, and every other
\* frame is kept.
C23_WrapperElidedUnlessPanic ==
    \A i \in 1 .. gopos : \A j \in 1 .. Len(gostack[i]) :
        ~KeptFrame(i, j) <=>
            (gostack[i][j] = "FuncIDWrapper" /\ CalleeOf(i, j) \notin PanicFamily)

\* C24: for a module detected as CPython 3.11, a profiler makes a listener
\* only for the functions of the opt-in list.
C24_PythonOnlyOptIn ==
    (lang = "python311" /\ pret.op = "NewFunctionListener" /\ pret.listener)
        => pret.name \in OnlyFunctions(lang)

\* C25: a SkipToDataOffset call with an offset the iterator is already past,
\* or beyond the data section, panics and returns no bytes; so the offsets
\* for which successive calls on one iterator return bytes increase.
C25_OffsetsMonotonic ==
    /\ (skip.pc # "idle" /\ (skip.offset < skip.from \/ skip.offset >= SectionLen(dsec)))
           => skip.pc = "panicked"
    /\ (skip.pc = "returned" /\ skip.bytes > 0) => skip.offset > skip.prev

\* A call that returned bytes is followed by a call for an offset not above
\* the one served, which panics.
C25_Witness ==
    /\ skip.pc = "panicked"
    /\ skip.prev >= 0
    /\ skip.offset <= skip.prev

\* ---------------------------------------------------- properties: SpecFind
\* The data section holds no position where the start needle, the cutab address
\* 32 bytes on and the filetab address 56 bytes on are all found.
NoModuleData(b) ==
    ~\E p \in b.start :
        /\ p + CutabOff \in b.cutab /\ p + CutabOff + AddrLen <= b.len
        /\ p + FiletabOff \in b.filetab /\ p + FiletabOff + AddrLen <= b.len

\* C26: a search of a data section with no position where the needle, the
\* cutab address at +32 and the filetab address at +56 all match comes to an
\* end, returns -1, and the preparation fails with "could not find moduledata".
C26_NoMatchTerminatesNotFound ==
    (find.pc = "loop" /\ NoModuleData(find.b))
        ~> (find.pc = "failed" /\ find.offset = -1
            /\ find.err = "could not find moduledata in data section")

\* ------------------------------------------------ properties: SpecSampler (2)
\* An After or an Abort of the sampled listener with no Before outstanding.
UnpairedExit == kind = "sampled" /\ stack.size = 0 /\ (SampledAfter \/ SampledAbort)

\* C27: popping the empty bit-stack panics: the After or Abort that did it
\* gets no bit, forwards nothing to the inner listener, and ends the listener.
C27_EmptyPopPanics ==
    [][UnpairedExit => (kind' = "panicked" /\ inner' = inner /\ open' = open)]_vars

\* The stack was popped when empty after calls had been forwarded and returned.
C27_Witness ==
    /\ kind = "panicked"
    /\ inner.before >= 1
    /\ inner.after + inner.abort = inner.before

\* Calls made by TestSampledFunctionListener, and the cycle of its rate 0.1.
TestCalls == 20
TestCycle == 10

\* The listener made for rate 0.1 has got TestCalls calls, all have returned,
\* and no forwarded one was aborted.
TestCallsDone ==
    /\ kind = "sampled"
    /\ cycle = TestCycle
    /\ nBefore = TestCalls
    /\ Len(open) = 0
    /\ inner.abort = 0

\* C28: with sample rate 0.1, after 20 Before calls each followed by its After
\* the inner listener has got exactly 2 Before calls and 2 After calls.
C28_TwoOfTwentyForwarded == TestCallsDone => (inner.before = 2 /\ inner.after = 2)

\* The 20 calls of the test have been made and have returned.
C28_Witness == TestCallsDone /\ stack.size = 0 /\ count = TestCycle

\* ------------------------------------------------- properties: SpecMem (3)
\* A calloc returns without error.
CallocReturns == \E res \in Addrs : CallocAfter(FALSE, res)

\* count x size as a uint32, for the arguments the model draws: the product
\* itself below 2^31, and for a count of 2^16 the low half of size moved up.
ExpectedCallocSize(cnt, size) ==
    IF cnt = HalfWord THEN (size % HalfWord) * HalfWord ELSE cnt * size

\* What the step adds to the counters of the stack with this key.
AddedAllocs(key) == CountOf(alloc', key) - CountOf(alloc, key)
AddedBytes(key) == TotalOf(alloc', key) - TotalOf(alloc, key)

\* C29: a calloc(count, size) that returns without error is recorded as one
\* allocation of count x size bytes, the product taken as a uint32; 42 x 11 as
\* 462.
C29_CallocRecordsProduct ==
    [][CallocReturns =>
          LET call == Last(mcalls)
              key == lstn["calloc"].stack.key
          IN /\ AddedAllocs(key) = 1
             /\ AddedBytes(key) = ExpectedCallocSize(call.count, call.size)
             /\ (call.count = 42 /\ call.size = 11) => AddedBytes(key) = 462]_vars

\* What the code guarantees for C29: the allocation recorded is of the product
\* of the count and size the calloc listener holds, those of the most recent
\* calloc entry.
CallocRecordsListenerProduct ==
    [][CallocReturns =>
          LET key == lstn["calloc"].stack.key
          IN /\ AddedAllocs(key) = 1
             /\ AddedBytes(key) = ExpectedCallocSize(lstn["calloc"].count, lstn["calloc"].size)]_vars

\* ------------------------------------------------- properties: SpecCPU (3)
\* C30: a profile holds only observations of calls whose Before came after the
\* StartProfile that began it: no call that was entered before a StopProfile
\* is recorded in the profile a later StartProfile began.
C30_OnlyCallsOfThisRun == [][Recording => ~af.stopped]_vars

\* C31: whatever StartProfile and StopProfile calls of another thread come
\* between the guest's nested calls, p.frames holds one frame per outstanding
\* call, in the order of the calls, each the frame its Before pushed (timed
\* from the entry of that call, or the zero frame); so an After or Abort, which
\* the runtime calls for the innermost outstanding call, finds p.frames
\* non-empty and pops the frame of that call.
C31_FramesMatchCalls ==
    /\ Len(frames) = Len(calls)
    /\ \A i \in 1 .. Len(frames) :
          /\ calls[i].timed <=> frames[i].start # 0
          /\ calls[i].timed =>
                /\ frames[i].start = calls[i].entry
                /\ frames[i].trace.pcs = PcsOfCall(i)

\* Two nested calls are outstanding, the outer entered in a profile that
\* StopProfile has taken since, the inner entered while no profile was running,
\* and a new profile has been started.
C31_Witness ==
    /\ Len(calls) = 2
    /\ calls[1].timed /\ calls[1].stopped
    /\ ~calls[2].timed /\ frames[2].start = 0
    /\ counts # Nil

\* An After or an Abort of the CPU profiler's listener is called.
AfterStep == \E t \in TimeVals : After(t) \/ Abort(t)

\* The innermost outstanding call was entered while the profiler was running
\* (its frame holds a captured trace) and no StopProfile has come since.
EnteredInThisRun ==
    /\ calls # <<>>
    /\ Last(frames).trace.pcs # <<>>
    /\ ~Last(calls).stopped
    /\ counts # Nil

\* C32: the After of a call whose Before and After both come while the
\* profiler is running takes the call to its observation, whatever the time
\* function returned at the entry of the call, 0 included.
C32_RunningCallRecorded ==
    [][(EnteredInThisRun /\ AfterStep) => (gpc' = "observe" /\ af'.trace = Last(frames).trace)]_vars

\* What the code guarantees for C32: the call is taken to its observation when
\* the time function returned a non-zero value at its entry.
RunningCallRecordedUnlessZero ==
    [][(EnteredInThisRun /\ Last(calls).entry # 0 /\ AfterStep)
          => (gpc' = "observe" /\ af'.trace = Last(frames).trace)]_vars

\* ------------------------------------------------- properties: SpecMem (4)
\* C33: when calls of one allocator function nest, the After of each call
\* records the arguments of its own Before: a malloc its size, a calloc the
\* product of its count and size, a realloc its size.
C33_AfterUsesOwnBefore ==
    [][/\ \A res \in Addrs : MallocAfter(FALSE, res) =>
              inuse'[res].size = Last(mcalls).size
       /\ \A res \in Addrs : CallocAfter(FALSE, res) =>
              inuse'[res].size = U32Mul(Last(mcalls).count, Last(mcalls).size)
       /\ ReallocDone => inuse'[mres].size = Last(mcalls).size]_vars

\* What the code guarantees for C33: each After records the arguments its
\* listener holds, those of the most recent Before of the function.
AfterUsesListenerFields ==
    [][/\ \A res \in Addrs : MallocAfter(FALSE, res) =>
              inuse'[res].size = lstn["malloc"].size
       /\ \A res \in Addrs : CallocAfter(FALSE, res) =>
              inuse'[res].size = U32Mul(lstn["calloc"].count, lstn["calloc"].size)
       /\ ReallocDone => inuse'[mres].size = lstn["realloc"].size]_vars

\* ------------------------------------------------ properties: SpecMem (5)
\* C34: a snapshot taken by another thread at any point of the guest's
\* allocations and frees, between the two observations of a realloc included,
\* sees every observation whole: for every stack of the snapshot the objects
\* in use are at most the objects allocated, and the bytes in use at most the
\* bytes allocated.
C34_SnapshotInuseWithinAlloc ==
    snap.taken =>
        \A key \in DOMAIN snap.samples :
            /\ snap.samples[key].value[3] <= snap.samples[key].value[1]
            /\ snap.samples[key].value[4] <= snap.samples[key].value[2]

\* A snapshot taken between the free and the allocation of a realloc: the
\* block the realloc moves is counted as allocated and no longer in use.
C34_Witness ==
    /\ snap.taken
    /\ mpc = "realloc"
    /\ inuse = EmptyMap
    /\ \E key \in DOMAIN snap.samples :
          /\ snap.samples[key].value[1] = 1
          /\ snap.samples[key].value[3] = 0
          /\ snap.samples[key].value[2] > 0

\* ---------------------------------------------- properties: SpecServe (3)
\* C35: the StopProfile of a request that started the profiler returns a
\* profile, which the handler writes, whatever other callers of StartProfile
\* and StopProfile did while the request was waiting.
C35_StartedRequestGetsProfile ==
    [][HandlerReply(NoSampling) => (ret'.found /\ ~resp'.panicked)]_vars

\* What the handler's StopProfile returns is a profile exactly when the map it
\* swapped out was there, and the handler panics exactly when it was not.
HandlerPanicsOnNilProfile ==
    [][HandlerReply(NoSampling) =>
          /\ ret'.found <=> (tsamples["http"] # Nil)
          /\ resp'.panicked <=> (tsamples["http"] = Nil)]_vars

\* ------------------------------------------------- properties: SpecTrace
\* C36: the trace stored with a counter keeps the frames and the key it was
\* stored with, however the buffer it was cloned from is refilled afterwards.
C36_StoredTraceImmutable ==
    \A key \in DOMAIN store :
        /\ FramesOf(backing, store[key]) = kept[key]
        /\ store[key].key = key
        /\ HashBytes(seed, SliceRead(backing, store[key].pcs)) = key

\* A listener's trace is stored, and the listener's buffer, the one it was
\* cloned from, has since been refilled in place with another stack.
C36_Witness ==
    /\ owner = "mem"
    /\ \E key \in DOMAIN store :
          /\ field.key # key
          /\ field.pcs.len = Len(kept[key].pcs)
          /\ SliceRead(backing, field.pcs) # kept[key].pcs
          /\ Len(backing) = 4

\* ------------------------------------------------ properties: SpecDataFair
\* C37: every SkipToDataOffset call comes to an end, by returning or by
\* panicking, whatever the data section holds, a section whose declared
\* segments run out ahead of the offset included.
C37_SkipTerminates == (skip.pc = "loop") ~> (skip.pc \in {"returned", "panicked"})

\* A call comes to an end whenever the segments declared reach the offset, or
\* the iterator is at the offset already.
SkipTerminatesWithinDeclared ==
    (skip.pc = "loop" /\ (dit.n > 0 \/ dit.offset >= skip.offset)) ~>
        (skip.pc \in {"returned", "panicked"} \/ (dit.n = 0 /\ dit.offset < skip.offset))

\* ------------------------------------------------ properties: SpecFind (2)
\* C38: an offset k >= 0 returned by findStartOfModuleData is the offset of a
\* match in the data section: the start needle at k, the cutab address at
\* k + 32 and the filetab address at k + 56, also after earlier occurrences of
\* the needle were rejected.
C38_ReturnedOffsetIsMatch ==
    (find.pc = "returned" /\ find.offset >= 0) =>
        /\ find.offset \in find.b.start
        /\ find.offset + CutabOff \in find.b.cutab
        /\ find.offset + FiletabOff \in find.b.filetab

\* The offset returned is one where the start needle is, and when no
\* occurrence was rejected before it, one of a match.
ReturnedOffsetIsNeedle ==
    (find.pc = "returned" /\ find.offset >= 0) =>
        /\ find.offset \in find.b.start
        /\ find.begin = 0 =>
              /\ find.offset + CutabOff \in find.b.cutab
              /\ find.offset + FiletabOff \in find.b.filetab

\* ------------------------------------------------- properties: SpecBuild
\* C39: in a built profile the Location IDs are 1..n in table order, every
\* distinct (module, index, name, PC) frame has one Location, which every
\* sample holding the frame refers to, and samples refer to Locations of the
\* table only.
C39_OneLocationPerFrame ==
    bld.pc = "done" =>
        /\ \A n \in 1 .. Len(bld.Location) : bld.Location[n].ID = n
        /\ \A m, n \in 1 .. Len(bld.Location) :
              bld.Location[m].frame = bld.Location[n].frame => m = n
        /\ \A x \in 1 .. Len(bld.Sample) :
              /\ Len(bld.Sample[x].Location) = Len(bld.Sample[x].stack)
              /\ \A i \in 1 .. Len(bld.Sample[x].stack) :
                    /\ bld.Sample[x].Location[i] \in 1 .. Len(bld.Location)
                    /\ bld.Location[bld.Sample[x].Location[i]].frame = bld.Sample[x].stack[i]

\* A profile of three samples that share frames: fewer Locations than frames
\* sampled, and a sample dropped by the scaling.
C39_Witness ==
    /\ bld.pc = "done"
    /\ Len(bld.Sample) = 2
    /\ Len(bld.Location) = 3
    /\ \E x, y \in 1 .. Len(bld.Sample) :
          /\ x # y
          /\ \E i \in 1 .. Len(bld.Sample[x].Location), j \in 1 .. Len(bld.Sample[y].Location) :
                bld.Sample[x].Location[i] = bld.Sample[y].Location[j]
    /\ bld.locationID = 4

\* -------------------------------------------------- properties: SpecBits
\* C40: whatever was pushed and popped before, pops never outnumbering pushes,
\* pop returns the bit of the latest push not yet popped, and takes it off:
\* also at depths across a multiple of 64, where push has grown the words.
C40_PopReturnsLastPushed ==
    [][bitstackPop =>
          /\ ~pop(stack).panic
          /\ (pop(stack).bit = 1) <=> Last(open)
          /\ stack'.size = Len(open')]_vars

\* The stack has grown to three words and been popped back across both
\* multiples of 64, a one bit on top at depth 64.
C40_Witness ==
    /\ Len(stack.bits) = 3
    /\ stack.size = WordBits
    /\ Last(open)
    /\ ~open[1]
    /\ 0 \in stack.bits[2]
====
